---- MODULE Spec2Model ----
(***************************************************************************)
(* Model of the traffic analysis engine of traffic_visualization.py:       *)
(* loader, field reducer, mask builder, line detector, classifier, speed   *)
(* estimator, statistics aggregator, result writer and result loader, and  *)
(* of the sessions and analysis threads of app.py.                         *)
(*                                                                         *)
(* Specifications: Spec and SpecRerun (one run of fast_generate_analysis), *)
(* SpecClassify, SpecStats and SpecMask (one function on drawn arguments), *)
(* SpecRoundTrip (one run, with loads of its output location at any        *)
(* moment), SpecWeb (concurrent requests and runs).  Each keeps of a file  *)
(* in the output location what its properties read: the saved record, its  *)
(* text, or the run that wrote it.                                         *)
(*                                                                         *)
(* Numbers.  The program computes in floating point; the model computes in *)
(* fixed point over the integers:                                          *)
(*   time        milliseconds            (1.5 s          is 1500)          *)
(*   position    millionths of a cell    (2.25           is 2250000)       *)
(*               and the rest in 10^-12  (of a line's position)            *)
(*   amplitude   tenths                  (2.5            is 25)            *)
(*   speed       a fraction (n + p / 10^6) / d of a km/h                   *)
(*   statistics  tenths                  (round(x, 1)    is an integer)    *)
(* A fixed-point number stands for the float nearest to it.  Where the     *)
(* program decides by a float that lies on a limit but for its rounding    *)
(* error (np.degrees of a grid angle against 3 and 87, a position on the   *)
(* boundary of two cells, the float32 mean amplitude against 2.5,          *)
(* speed_kmh against 5, 25 and 120, a quotient midway between two tenths), *)
(* the model keeps the sign of that error beside the number, or takes      *)
(* every outcome the error can produce.  A position is [micro, pico, err]  *)
(* (micro the nearest millionth, pico the distance from it in 10^-12) and  *)
(* a speed [n, p, d, err], err the sign of the float's distance from the   *)
(* number.                                                                 *)
(* Array indices are 0-based in the program and 1-based in the sequences   *)
(* of the model: program index i is sequence index i + 1.                  *)
(***************************************************************************)
EXTENDS Integers, Sequences, FiniteSets, TLC

VARIABLES
    pc,            \* position of the run / of the function under check
    h5file,        \* the stored recording: [exists, statistics, timestamps]
    stats,         \* tensor returned by load_combined_data
    timestamps,    \* timestamps returned by load_combined_data
    data_2d,       \* filtered field (signal_2d)
    binary,        \* occupancy mask (binary_mask)
    hough,         \* what the Hough search did: [raised, peaks]
    raw_tracks,    \* list returned by detect_tracks_fast
    candidate_speeds, \* speed_kmh of each candidate in the loop of the run
    tracks,        \* the final track list
    stats_result,  \* the statistics record
    outdir,        \* the output location: [tracks_json, report_txt, infographic_png]
    result,        \* the dict returned by fast_generate_analysis
    track_points,  \* argument of smart_classify_vehicle
    amplitudes,    \* the amplitudes smart_classify_vehicle sampled
    classified,    \* value returned by smart_classify_vehicle
    utc_offset,    \* the host's local time zone, seconds east of UTC
    loaded,        \* value returned by load_tracks_and_get_time_range
    sessions,      \* app.sessions: session id -> [present, running, done, error]
    requests,      \* POST /run-analysis requests: [pc, sid, response]
    tasks          \* run_analysis_task threads: [pc, success, size, written]

vars == <<pc, h5file, stats, timestamps, data_2d, binary, hough, raw_tracks,
          candidate_speeds, tracks,
          stats_result, outdir, result, track_points, amplitudes, classified,
          utc_offset, loaded, sessions, requests, tasks>>

\* the state of the web layer
web == <<sessions, requests, tasks>>

---------------------------------------------------------------------------
(* Program constants                                                       *)

FREQ_CHANNELS == 96
MIN_TRACK_LENGTH == 8
MIN_SPEED_KMH == 5
MAX_SPEED_KMH == 120
CONGESTION_SPEED_THRESHOLD == 25
NUM_PEAKS == 400     \* num_peaks of hough_line_peaks
MIN_DISTANCE == 8    \* min_distance of hough_line_peaks
MIN_ANGLE == 3       \* min_angle of hough_line_peaks

(* Bounds of the model                                                     *)

NT == 13          \* time steps of a recording
NL == 16          \* positions of a recording
NW == 134         \* positions of the wide recording
NF == 1           \* frequency channels of a recording
MaxTrackLen == 42 \* points of a track handed to the classifier
MaxTracks == 3    \* tracks handed to the aggregator

---------------------------------------------------------------------------
(* Arithmetic helpers                                                      *)

Min2(a, b) == IF a <= b THEN a ELSE b
Max2(a, b) == IF a >= b THEN a ELSE b
Abs(a) == IF a >= 0 THEN a ELSE -a

\* the position that is the float of a number of millionths of a cell
Position(micro) == [micro |-> micro, pico |-> 0, err |-> 0]

\* int(x) of a position: truncation toward zero
IntTrunc(x) ==
    IF x.micro >= 0
    THEN IF x.err < 0 /\ x.micro % 1000000 = 0 /\ x.micro > 0
         THEN (x.micro \div 1000000) - 1
         ELSE x.micro \div 1000000
    ELSE -((-x.micro) \div 1000000)

RECURSIVE SumSeq(_)
SumSeq(s) == IF s = <<>> THEN 0 ELSE s[1] + SumSeq(Tail(s))

RECURSIVE MaxSeq(_)
MaxSeq(s) == IF Len(s) = 1 THEN s[1] ELSE Max2(s[1], MaxSeq(Tail(s)))

RECURSIVE MinSeq(_)
MinSeq(s) == IF Len(s) = 1 THEN s[1] ELSE Min2(s[1], MinSeq(Tail(s)))

RECURSIVE GCD(_, _)
GCD(a, b) == IF b = 0 THEN a ELSE GCD(b, a % b)

RECURSIVE IsPowerOfTwo(_)
IsPowerOfTwo(a) == a = 1 \/ (a > 1 /\ a % 2 = 0 /\ IsPowerOfTwo(a \div 2))

\* A fixed-point number of the model stands for the float nearest to it.
\* n / d, n >= 0 and d > 0, is a float exactly when its denominator in lowest
\* terms is a power of two; a float operation whose operands and exact
\* result are such numbers has no rounding error.
Dyadic(n, d) == IsPowerOfTwo(d \div GCD(n, d))

\* round(x, 1), in tenths, of the float x the program computed for n / d,
\* d > 0: the tenths round can return.  It returns the tenth nearest to x.
\* Where n / d lies midway between two tenths, x is n / d itself when every
\* operation that computed it was exact, and round returns the even tenth;
\* otherwise x lies on either side of the midpoint, by the rounding errors
\* of those operations, and round returns either tenth.
Round1(n, d, exact) ==
    LET q == (10 * n) \div d
        r == (10 * n) % d
    IN  IF 2 * r < d THEN {q}
        ELSE IF 2 * r > d THEN {q + 1}
        ELSE IF exact THEN {IF q % 2 = 0 THEN q ELSE q + 1}
        ELSE {q, q + 1}

---------------------------------------------------------------------------
(* Tensor Loader                                                           *)

\* timestamps of load_combined_data.  An array of timestamps is
\*   [ndim |-> 1, cols |-> 0, data |-> <<t, ...>>, rows |-> <<>>]
\*       a flat array of fractional seconds, or
\*   [ndim |-> 2, cols |-> k, data |-> <<>>, rows |-> <<<<f1, .., fk>>, ...>>]
\*       an array of rows of k fields each
CombineTimestamps(stored) ==
    IF stored.ndim = 2 /\ stored.cols = 3
    THEN [ndim |-> 1, cols |-> 0,
          data |-> [t \in 1..Len(stored.rows) |->
                        stored.rows[t][1] * 1000 + stored.rows[t][2]],
          rows |-> <<>>]
    ELSE stored

---------------------------------------------------------------------------
(* Field Reducer and Mask Builder                                          *)

\* FREQ_WEIGHTS[f] in tenths, f 0-based
FreqWeight(f) == IF f < 20 THEN 16 ELSE IF f < 40 THEN 14 ELSE 4

\* the weighted sum of the first k channels of one cell
RECURSIVE ChannelSum(_, _)
ChannelSum(cell, k) ==
    IF k = 0 THEN 0
    ELSE ChannelSum(cell, k - 1) + cell[k] * FreqWeight(k - 1)

Rows(m) == Len(m)
Cols(m) == IF Len(m) = 0 THEN 0 ELSE Len(m[1])
Cells(m) == (1..Rows(m)) \X (1..Cols(m))

ReduceField(tensor) ==
    [t \in 1..Rows(tensor) |->
        [x \in 1..Cols(tensor) |->
            ChannelSum(tensor[t][x], Min2(50, Len(tensor[t][x])))]]

\* median_filter(size=(1, 2)): the window of a cell is the cell and its left
\* neighbour (the edge is reflected); the element of rank size // 2 = 1 of
\* the two is the larger one
MedianFilter(m) ==
    [t \in 1..Rows(m) |->
        [x \in 1..Cols(m) |->
            IF x = 1 THEN m[t][1] ELSE Max2(m[t][x - 1], m[t][x])]]

\* the k-th smallest value of the field, k 0-based
KthSmallest(m, k) ==
    LET vals == {m[c[1]][c[2]] : c \in Cells(m)}
    IN  CHOOSE v \in vals :
            /\ Cardinality({c \in Cells(m) : m[c[1]][c[2]] < v}) <= k
            /\ Cardinality({c \in Cells(m) : m[c[1]][c[2]] <= v}) > k

\* np.percentile(m, q) times 100: linear interpolation between the two
\* order statistics around position q / 100 * (N - 1)
Percentile(m, q) ==
    LET n    == Rows(m) * Cols(m)
        pos  == q * (n - 1)
        lo   == pos \div 100
        frac == pos % 100
        a    == KthSmallest(m, lo)
    IN  IF frac = 0 THEN 100 * a
        ELSE 100 * a + frac * (KthSmallest(m, lo + 1) - a)

\* threshold = p70 + 0.2 * (p85 - p70), times 500
Threshold(m) ==
    LET p70 == Percentile(m, 70)
        p85 == Percentile(m, 85)
    IN  5 * p70 + (p85 - p70)

\* Variant: a cell equal to the threshold counts as occupied.
BinarizeInclusive(m) ==
    LET th == Threshold(m)
    IN  [t \in 1..Rows(m) |-> [x \in 1..Cols(m) |-> 500 * m[t][x] >= th]]

\* binary = filtered_data > threshold
Binarize(m) ==
    LET th == Threshold(m)
    IN  [t \in 1..Rows(m) |-> [x \in 1..Cols(m) |-> 500 * m[t][x] > th]]

\* binary_erosion(structure=ones((1, 2))): a cell and its left neighbour,
\* cells outside the array are unoccupied
BinaryErosion(b) ==
    [t \in 1..Rows(b) |->
        [x \in 1..Cols(b) |-> x > 1 /\ b[t][x - 1] /\ b[t][x]]]

\* binary_dilation(structure=ones((1, 2))): the mirrored element, a cell and
\* its right neighbour
BinaryDilation(b) ==
    [t \in 1..Rows(b) |->
        [x \in 1..Cols(b) |-> b[t][x] \/ (x < Cols(b) /\ b[t][x + 1])]]

OptimizedPreprocess(tensor) ==
    LET filtered == MedianFilter(ReduceField(tensor))
    IN  [filtered_data |-> filtered,
         binary |-> BinaryDilation(BinaryErosion(Binarize(filtered)))]

---------------------------------------------------------------------------
(* Line Detector                                                           *)

\* hough_line is called without theta, so the search's angle grid is
\* theta[k] = -pi/2 + k * (pi/180), k in 0..179, and a peak's angle is one
\* of these floats; deg names it by its whole number of degrees, k - 90.
\* A peak of the search is [deg, dist], dist one of the whole offsets
\* -offset..offset of the accumulator.
\* The sine of 0..90 degrees, times 1000000000.
SinTable ==
    <<
       0, 17452406, 34899497, 52335956, 69756474, 87155743,
       104528463, 121869343, 139173101, 156434465, 173648178, 190808995,
       207911691, 224951054, 241921896, 258819045, 275637356, 292371705,
       309016994, 325568154, 342020143, 358367950, 374606593, 390731128,
       406736643, 422618262, 438371147, 453990500, 469471563, 484809620,
       500000000, 515038075, 529919264, 544639035, 559192903, 573576436,
       587785252, 601815023, 615661475, 629320391, 642787610, 656059029,
       669130606, 681998360, 694658370, 707106781, 719339800, 731353702,
       743144825, 754709580, 766044443, 777145961, 788010754, 798635510,
       809016994, 819152044, 829037573, 838670568, 848048096, 857167301,
       866025404, 874619707, 882947593, 891006524, 898794046, 906307787,
       913545458, 920504853, 927183855, 933580426, 939692621, 945518576,
       951056516, 956304756, 961261696, 965925826, 970295726, 974370065,
       978147601, 981627183, 984807753, 987688341, 990268069, 992546152,
       994521895, 996194698, 997564050, 998629535, 999390827, 999847695,
       1000000000
    >>

\* sin and cos of the angle, times 1000000000
Sin(deg) == IF deg >= 0 THEN SinTable[deg + 1] ELSE -SinTable[-deg + 1]

Cos(deg) == SinTable[90 - Abs(deg) + 1]

\* offset = ceil(sqrt(rows^2 + cols^2)) of hough_line: the accumulator has
\* the 2 * offset + 1 distance bins -offset..offset
HoughOffset(T, L) ==
    CHOOSE n \in 0..(T + L) :
        /\ n * n >= T * T + L * L
        /\ n = 0 \/ (n - 1) * (n - 1) < T * T + L * L

\* round(ctheta[j] * x + stheta[j] * y) of hough_line, the C round (half
\* away from zero), for the occupied cell of column x and row y.  The sum
\* is taken in two parts of five digits.  It is midway between two whole
\* numbers only for y = 0 and the angles of 60 and -60 degrees, whose float
\* cosine is 0.4999999999999999, for x = 0 and 30 degrees, whose float sine
\* is 0.49999999999999983 (the float sum is below the midpoint and round
\* returns the whole number below), and for x = 0 and -30 degrees, whose
\* float sine is -0.5 (the sum is the midpoint and round returns the whole
\* number below it, away from zero).
AccumIdx(x, y, deg) ==
    LET c     == Cos(deg)
        s     == SinTable[Abs(deg) + 1]
        sign  == IF deg >= 0 THEN 1 ELSE -1
        v1    == x * (c \div 100000) + sign * y * (s \div 100000)
        v0    == x * (c % 100000) + sign * y * (s % 100000)
        hi    == v1 + (v0 \div 100000)
        lo    == v0 % 100000
        whole == hi \div 10000
        frac  == (hi % 10000) * 100000 + lo
    IN  IF frac > 500000000 THEN whole + 1 ELSE whole

\* y_idxs, x_idxs = np.nonzero(img): the occupied cells <<y, x>>, 0-based, in
\* row-major order; those of the cells numbered lo..hi, row by row
RECURSIVE NonzeroIn(_, _, _)
NonzeroIn(mask, lo, hi) ==
    IF lo > hi THEN <<>>
    ELSE IF lo = hi
         THEN LET y == lo \div Cols(mask)
                  x == lo % Cols(mask)
              IN  IF mask[y + 1][x + 1] THEN << <<y, x>> >> ELSE <<>>
    ELSE NonzeroIn(mask, lo, (lo + hi) \div 2)
             \o NonzeroIn(mask, ((lo + hi) \div 2) + 1, hi)

Nonzero(mask) == NonzeroIn(mask, 0, Rows(mask) * Cols(mask) - 1)

\* hough_line(binary_mask): the accumulator, h[j + 1][r + 1] the votes of
\* angle theta[j] and distance bin r, accum[accum_idx, j] += 1 for every
\* occupied cell.  (\o <<>> leaves a sequence as it is.)
HoughLine(mask) ==
    LET cells  == Nonzero(mask)
        offset == HoughOffset(Rows(mask), Cols(mask))
        column(deg) ==
            LET idx  == [k \in 1..Len(cells) |->
                            AccumIdx(cells[k][2], cells[k][1], deg) + offset + 1]
                            \o <<>>
                hits == {idx[k] : k \in 1..Len(cells)}
            IN  [r \in 1..(2 * offset + 1) |->
                    IF r \in hits
                    THEN Cardinality({k \in 1..Len(cells) : idx[k] = r})
                    ELSE 0] \o <<>>
    IN  [j \in 1..180 |-> column(j - 91)] \o <<>>

\* a bin of the accumulator is <<r, j>>, 0-based: distance bin r, angle j
Votes(h, bin) == h[bin[2] + 1][bin[1] + 1]

HoughMax(h) ==
    LET vals == UNION {{h[j][r] : r \in 1..Len(h[j])} : j \in 1..Len(h)}
    IN  CHOOSE m \in vals : \A v \in vals : v <= m

\* v > threshold for a whole v and threshold = 0.1 * h.max(): the float
\* product is h.max() / 10 or a float above it and below the next whole
\* number
AboveThreshold(v, hmax) == 10 * v > hmax

\* img_max of _prominent_peaks: maximum_filter1d of size 2 * min_distance + 1
\* along the distances, then of size 2 * min_angle + 1 along the angles,
\* both padded with 0
WindowMax(h, bin) ==
    LET near == {<<r, j>> \in ((bin[1] - MIN_DISTANCE)..(bin[1] + MIN_DISTANCE))
                                 \X ((bin[2] - MIN_ANGLE)..(bin[2] + MIN_ANGLE)) :
                    /\ 0 <= r /\ r < Len(h[1])
                    /\ 0 <= j /\ j < Len(h)}
    IN  CHOOSE m \in {Votes(h, b) : b \in near} :
            \A b \in near : Votes(h, b) <= m

\* img == img_max, for a bin with votes
IsWindowMax(h, bin) ==
    \A r \in (bin[1] - MIN_DISTANCE)..(bin[1] + MIN_DISTANCE),
       j \in (bin[2] - MIN_ANGLE)..(bin[2] + MIN_ANGLE) :
        (0 <= r /\ r < Len(h[1]) /\ 0 <= j /\ j < Len(h))
            => h[j + 1][r + 1] <= Votes(h, bin)

\* img_t = img * mask > threshold: the bins above the threshold that hold
\* the maximum of their window
MaximaBins(h) ==
    LET hmax == HoughMax(h)
    IN  {bin \in (0..(Len(h[1]) - 1)) \X (0..(Len(h) - 1)) :
            /\ AboveThreshold(Votes(h, bin), hmax)
            /\ IsWindowMax(h, bin)}

\* measure.label(img_t): the 8-connected regions, numbered in the order of
\* their first bin, row by row
BinBefore(a, b) == a[1] < b[1] \/ (a[1] = b[1] /\ a[2] < b[2])

\* the region of bins that holds the bins of region: next are the bins of
\* region whose neighbours have not been looked at
RECURSIVE Region(_, _, _)
Region(region, next, bins) ==
    LET more == {b \in UNION {((a[1] - 1)..(a[1] + 1)) \X ((a[2] - 1)..(a[2] + 1)) :
                                  a \in next} :
                    b \in bins /\ b \notin region}
    IN  IF more = {} THEN region ELSE Region(region \cup more, more, bins)

RECURSIVE Label(_)
Label(bins) ==
    IF bins = {} THEN <<>>
    ELSE LET first == CHOOSE a \in bins :
                          \A b \in bins : a = b \/ BinBefore(a, b)
             reg   == Region({first}, {first}, bins)
         IN  <<reg>> \o Label(bins \ reg)

\* sorted(props, key=lambda x: x.intensity_max)[::-1]: the regions by
\* their votes, largest first, those of equal votes in reverse order of
\* their labels.  (The bins of a region have the same votes.)
RegionVotes(h, region) == Votes(h, CHOOSE b \in region : TRUE)

SortedProps(h, regions) ==
    LET n         == Len(regions)
        votes     == [i \in 1..n |-> RegionVotes(h, regions[i])] \o <<>>
        Before(i, k) == votes[i] > votes[k] \/ (votes[i] = votes[k] /\ i > k)
        place     == [i \in 1..n |->
                         1 + Cardinality({k \in 1..n : Before(k, i)})] \o <<>>
    IN  [p \in 1..n |-> regions[CHOOSE i \in 1..n : place[i] = p]] \o <<>>

\* the sum of coordinate i of the bins of a region, over the bins whose
\* coordinate is in lo..hi
RECURSIVE SumCoord(_, _, _, _)
SumCoord(region, i, lo, hi) ==
    IF lo > hi THEN 0
    ELSE IF lo = hi THEN lo * Cardinality({b \in region : b[i] = lo})
    ELSE SumCoord(region, i, lo, (lo + hi) \div 2)
             + SumCoord(region, i, ((lo + hi) \div 2) + 1, hi)

\* np.round of n / d, d > 0 and n >= 0: a midpoint goes to the even number
RoundHalfEven(n, d) ==
    LET q == n \div d
        r == n % d
    IN  IF 2 * r < d THEN q
        ELSE IF 2 * r > d THEN q + 1
        ELSE IF q % 2 = 0 THEN q ELSE q + 1

\* np.round(p.centroid): the bin of the mean coordinates of a region
Centroid(region) ==
    LET n == Cardinality(region)
        lo(i) == CHOOSE v \in {b[i] : b \in region} :
                     \A b \in region : v <= b[i]
        hi(i) == CHOOSE v \in {b[i] : b \in region} :
                     \A b \in region : v >= b[i]
    IN  <<RoundHalfEven(SumCoord(region, 1, lo(1), hi(1)), n),
          RoundHalfEven(SumCoord(region, 2, lo(2), hi(2)), n)>>

\* whether img_max[bin] was set to 0 when peak was found: the neighbourhood
\* of a peak is the bins up to min_distance rows and min_angle columns away;
\* rows outside 1..rows-1 are left out, and a column beyond the first or the
\* last angle continues at the other end of the grid in row rows - y
Suppresses(peak, bin, rows, cols) ==
    \E dy \in (-MIN_DISTANCE)..MIN_DISTANCE, dx \in (-MIN_ANGLE)..MIN_ANGLE :
        LET y == peak[1] + dy
            x == peak[2] + dx
        IN  /\ y > 0 /\ y < rows
            /\ bin = IF x < 0 THEN <<rows - y, x + cols>>
                     ELSE IF x >= cols THEN <<rows - y, x - cols>>
                     ELSE <<y, x>>

\* the loop of _prominent_peaks over the centroids props[k], props[k + 1],
\* ...: the bins of the peaks, found those of the centroids before
RECURSIVE PeakLoop(_, _, _, _, _)
PeakLoop(h, hmax, props, k, found) ==
    IF k > Len(props) THEN found
    ELSE LET c     == Centroid(props[k])
             accum == IF \E i \in 1..Len(found) :
                             Suppresses(found[i], c, Len(h[1]), Len(h))
                      THEN 0 ELSE WindowMax(h, c)
         IN  IF AboveThreshold(accum, hmax)
             THEN PeakLoop(h, hmax, props, k + 1, Append(found, c))
             ELSE PeakLoop(h, hmax, props, k + 1, found)

ProminentPeaks(h) ==
    PeakLoop(h, HoughMax(h), SortedProps(h, Label(MaximaBins(h))), 1, <<>>)

\* hough_line_peaks(h, theta, d, num_peaks=400, threshold=0.1 * h.max(),
\* min_distance=8, min_angle=3): the peaks [deg, dist] in the order the
\* search returns them.  The search returns every peak it finds when there
\* are no more than num_peaks, and else the num_peaks of most votes.
HoughLinePeaks(h) ==
    LET found  == ProminentPeaks(h)
        offset == (Len(h[1]) - 1) \div 2
    IN  [k \in 1..Min2(NUM_PEAKS, Len(found)) |->
            [deg |-> found[k][2] - 90, dist |-> found[k][1] - offset]] \o <<>>


\* The grid angles whose np.degrees is not the whole number deg but a float
\* a few units in the last place below it (-3 gives -3.0000000000000044), and
\* those whose np.degrees is a float a few units above it (3 gives
\* 3.0000000000000044, 87 gives 87.00000000000001); for every other grid
\* angle np.degrees is the whole number itself (-87 gives -87.0).
DegreesBelow ==
    {-60, -58, -30, -29, -21, -20, -12, -11, -10, -3, -2, -1, 7, 8, 16, 25,
     30, 32, 39, 41, 48, 50, 57, 59, 66, 75, 84}

DegreesAbove ==
    {-66, -59, -56, -47, -42, -38, -33, -32, -31, -25, -24, -23, -22, -16,
     -15, -14, -13, -8, -7, -6, -5, -4, 1, 2, 3, 4, 5, 6, 10, 11, 12, 13, 14,
     15, 20, 21, 22, 23, 24, 26, 28, 29, 31, 33, 35, 37, 40, 42, 44, 46, 49,
     51, 53, 55, 58, 60, 62, 64, 69, 71, 73, 78, 80, 82, 87, 89}

\* deg = np.degrees(angle) of a grid angle: the float [whole, err], the
\* whole number of degrees and the sign of the float's distance from it
Degrees(angle) ==
    [whole |-> angle,
     err   |-> IF angle \in DegreesAbove THEN 1
               ELSE IF angle \in DegreesBelow THEN -1 ELSE 0]

\* abs(deg) of a float [whole, err]
AbsDegrees(deg) ==
    IF deg.whole < 0 \/ (deg.whole = 0 /\ deg.err < 0)
    THEN [whole |-> -deg.whole, err |-> -deg.err] ELSE deg

\* limit < x and x < limit for a float x = [whole, err] and a whole limit
FloatAbove(x, limit) == x.whole > limit \/ (x.whole = limit /\ x.err > 0)
FloatBelow(x, limit) == x.whole < limit \/ (x.whole = limit /\ x.err < 0)

\* Variant: the angle filter without its upper limit.
AngleAcceptedNoMax(deg) == FloatAbove(AbsDegrees(deg), 3)

\* if not (3 < abs(deg) < 87): continue
AngleAccepted(deg) ==
    /\ FloatAbove(AbsDegrees(deg), 3)
    /\ FloatBelow(AbsDegrees(deg), 87)

\* 1 / cos(angle) and sin(angle) / cos(angle) of the float sine and cosine
\* of the grid angles -89..89 (entry deg + 90), to eighteen places: the
\* whole part and three groups of six digits, <<whole, millionths,
\* 10^-12, 10^-18>>, of the sign of the number.
SecTable ==
    <<
       <<57, 298688, 498549, 902538>>, <<28, 653708, 347843, 731998>>,
       <<19, 107322, 609297, 349160>>, <<14, 335587, 26203, 643927>>,
       <<11, 473713, 245669, 859795>>, <<9, 566772, 233505, 627454>>,
       <<8, 205509, 48125, 77733>>, <<7, 185296, 534327, 718052>>,
       <<6, 392453, 221499, 659281>>, <<5, 758770, 483143, 631361>>,
       <<5, 240843, 64167, 845923>>, <<4, 809734, 344744, 128001>>,
       <<4, 445411, 482585, 798190>>, <<4, 133565, 494438, 750128>>,
       <<3, 863703, 305156, 273488>>, <<3, 627955, 278543, 300391>>,
       <<3, 420303, 619833, 268173>>, <<3, 236067, 977499, 789412>>,
       <<3, 71553, 486757, 241539>>, <<2, 923804, 400163, 86475>>,
       <<2, 790428, 109625, 335086>>, <<2, 669467, 162554, 13270>>,
       <<2, 559304, 665247, 452454>>, <<2, 458593, 335574, 237170>>,
       <<2, 366201, 583152, 498489>>, <<2, 281172, 32704, 859111>>,
       <<2, 202689, 264585, 266559>>, <<2, 130054, 468189, 512317>>,
       <<2, 62665, 339627, 313858>>, <<2, 0, 0, 444>>,
       <<1, 941604, 26410, 355744>>, <<1, 887079, 914799, 858485>>,
       <<1, 836078, 458776, 662768>>, <<1, 788291, 649971, 400372>>,
       <<1, 743446, 795621, 97827>>, <<1, 701301, 616704, 79841>>,
       <<1, 661640, 141122, 482931>>, <<1, 624269, 245482, 743991>>,
       <<1, 589015, 729065, 749318>>, <<1, 555723, 826860, 412231>>,
       <<1, 524253, 86705, 814263>>, <<1, 494476, 549864, 608613>>,
       <<1, 466279, 185639, 624737>>, <<1, 439556, 539625, 726386>>,
       <<1, 414213, 562373, 94952>>, <<1, 390163, 591016, 678687>>,
       <<1, 367327, 461098, 595132>>, <<1, 345632, 729606, 375892>>,
       <<1, 325012, 993348, 811323>>, <<1, 305407, 289332, 278642>>,
       <<1, 286759, 565893, 167295>>, <<1, 269018, 215072, 578727>>,
       <<1, 252135, 658156, 225688>>, <<1, 236067, 977499, 789655>>,
       <<1, 220774, 588761, 456055>>, <<1, 206217, 948503, 905317>>,
       <<1, 192363, 292835, 947427>>, <<1, 179178, 403362, 96292>>,
       <<1, 166633, 397215, 330430>>, <<1, 154700, 538379, 251596>>,
       <<1, 143354, 67873, 320069>>, <<1, 132570, 50689, 39103>>,
       <<1, 122326, 237634, 360761>>, <<1, 112601, 940475, 188877>>,
       <<1, 103377, 918962, 491789>>, <<1, 94636, 278506, 46643>>,
       <<1, 86360, 377405, 296204>>, <<1, 78534, 742677, 583416>>,
       <<1, 71144, 993637, 29020>>, <<1, 64177, 772475, 912217>>,
       <<1, 57620, 681186, 670615>>, <<1, 51462, 224238, 267257>>,
       <<1, 45691, 756487, 147936>>, <<1, 40299, 435861, 602062>>,
       <<1, 35276, 180410, 83022>>, <<1, 30613, 629349, 898088>>,
       <<1, 26304, 107793, 391569>>, <<1, 22340, 594865, 29336>>,
       <<1, 18716, 694955, 214208>>, <<1, 15426, 611885, 745025>>,
       <<1, 12465, 125788, 2886>>, <<1, 9827, 572518, 618061>>,
       <<1, 7509, 825458, 848300>>, <<1, 5508, 279563, 516455>>,
       <<1, 3819, 837543, 347377>>, <<1, 2441, 898081, 172058>>,
       <<1, 1372, 345997, 921017>>, <<1, 609, 544298, 821744>>,
       <<1, 152, 328043, 907635>>, <<1, 0, 0, 0>>,
       <<1, 152, 328043, 907635>>, <<1, 609, 544298, 821744>>,
       <<1, 1372, 345997, 921017>>, <<1, 2441, 898081, 172169>>,
       <<1, 3819, 837543, 347377>>, <<1, 5508, 279563, 516455>>,
       <<1, 7509, 825458, 848300>>, <<1, 9827, 572518, 618061>>,
       <<1, 12465, 125788, 2886>>, <<1, 15426, 611885, 745025>>,
       <<1, 18716, 694955, 214208>>, <<1, 22340, 594865, 29336>>,
       <<1, 26304, 107793, 391569>>, <<1, 30613, 629349, 898088>>,
       <<1, 35276, 180410, 83141>>, <<1, 40299, 435861, 602062>>,
       <<1, 45691, 756487, 147936>>, <<1, 51462, 224238, 267257>>,
       <<1, 57620, 681186, 670615>>, <<1, 64177, 772475, 912217>>,
       <<1, 71144, 993637, 29020>>, <<1, 78534, 742677, 583416>>,
       <<1, 86360, 377405, 296335>>, <<1, 94636, 278506, 46776>>,
       <<1, 103377, 918962, 491789>>, <<1, 112601, 940475, 189014>>,
       <<1, 122326, 237634, 360761>>, <<1, 132570, 50689, 39246>>,
       <<1, 143354, 67873, 320069>>, <<1, 154700, 538379, 251448>>,
       <<1, 166633, 397215, 330581>>, <<1, 179178, 403362, 96292>>,
       <<1, 192363, 292835, 947584>>, <<1, 206217, 948503, 905317>>,
       <<1, 220774, 588761, 456221>>, <<1, 236067, 977499, 789655>>,
       <<1, 252135, 658156, 225862>>, <<1, 269018, 215072, 578906>>,
       <<1, 286759, 565893, 167111>>, <<1, 305407, 289332, 278642>>,
       <<1, 325012, 993348, 811128>>, <<1, 345632, 729606, 376294>>,
       <<1, 367327, 461098, 595132>>, <<1, 390163, 591016, 679116>>,
       <<1, 414213, 562373, 94952>>, <<1, 439556, 539625, 726616>>,
       <<1, 466279, 185639, 624976>>, <<1, 494476, 549864, 608365>>,
       <<1, 524253, 86705, 814263>>, <<1, 555723, 826860, 411963>>,
       <<1, 589015, 729065, 749598>>, <<1, 624269, 245482, 743991>>,
       <<1, 661640, 141122, 483544>>, <<1, 701301, 616704, 79841>>,
       <<1, 743446, 795621, 98502>>, <<1, 788291, 649971, 400727>>,
       <<1, 836078, 458776, 662768>>, <<1, 887079, 914799, 858485>>,
       <<1, 941604, 26410, 355744>>, <<2, 0, 0, 444>>,
       <<2, 62665, 339627, 313858>>, <<2, 130054, 468189, 513324>>,
       <<2, 202689, 264585, 266559>>, <<2, 281172, 32704, 860266>>,
       <<2, 366201, 583152, 498489>>, <<2, 458593, 335574, 237170>>,
       <<2, 559304, 665247, 452454>>, <<2, 669467, 162554, 13270>>,
       <<2, 790428, 109625, 336815>>, <<2, 923804, 400163, 86475>>,
       <<3, 71553, 486757, 243634>>, <<3, 236067, 977499, 789412>>,
       <<3, 420303, 619833, 270770>>, <<3, 627955, 278543, 300391>>,
       <<3, 863703, 305156, 270174>>, <<4, 133565, 494438, 750128>>,
       <<4, 445411, 482585, 798190>>, <<4, 809734, 344744, 133138>>,
       <<5, 240843, 64167, 845923>>, <<5, 758770, 483143, 637804>>,
       <<6, 392453, 221499, 659281>>, <<7, 185296, 534327, 729516>>,
       <<8, 205509, 48125, 77733>>, <<9, 566772, 233505, 607132>>,
       <<11, 473713, 245669, 859795>>, <<14, 335587, 26203, 643927>>,
       <<19, 107322, 609297, 430226>>, <<28, 653708, 347843, 731998>>,
       <<57, 298688, 498550, 631542>>
    >>

TanTable ==
    <<
       <<-57, -289961, -630759, -145535>>, <<-28, -636253, -282915, -515387>>,
       <<-19, -81136, -687728, -161523>>, <<-14, -300666, -256711, -895557>>,
       <<-11, -430052, -302761, -347864>>, <<-9, -514364, -454222, -585793>>,
       <<-8, -144346, -427974, -593006>>, <<-7, -115369, -722384, -207986>>,
       <<-6, -313751, -514675, -41143>>, <<-5, -671281, -819617, -707164>>,
       <<-5, -144554, -15970, -307475>>, <<-4, -704630, -109478, -451308>>,
       <<-4, -331475, -874284, -152847>>, <<-4, -10780, -933535, -845515>>,
       <<-3, -732050, -807568, -877722>>, <<-3, -487414, -443840, -909050>>,
       <<-3, -270852, -618484, -140247>>, <<-3, -77683, -537175, -253000>>,
       <<-2, -904210, -877675, -821798>>, <<-2, -747477, -419454, -621352>>,
       <<-2, -605089, -64693, -800750>>, <<-2, -475086, -853416, -294628>>,
       <<-2, -355852, -365823, -753192>>, <<-2, -246036, -773904, -215061>>,
       <<-2, -144506, -920509, -558528>>, <<-2, -50303, -841579, -296123>>,
       <<-1, -962610, -505505, -150362>>, <<-1, -880726, -465346, -331533>>,
       <<-1, -804047, -755271, -423499>>, <<-1, -732050, -807568, -877800>>,
       <<-1, -664279, -482350, -517244>>, <<-1, -600334, -529041, -50490>>,
       <<-1, -539864, -963814, -582419>>, <<-1, -482560, -968512, -739935>>,
       <<-1, -428148, -6742, -114360>>, <<-1, -376381, -920471, -173566>>,
       <<-1, -327044, -821620, -409792>>, <<-1, -279941, -632193, -78668>>,
       <<-1, -234897, -156535, -51336>>, <<-1, -191753, -592594, -209857>>,
       <<-1, -150368, -407221, -9596>>, <<-1, -110612, -514829, -192678>>,
       <<-1, -72368, -710024, -682362>>, <<-1, -35530, -313790, -569471>>,
       <<0, -999999, -999999, -999843>>, <<0, -965688, -774807, -73930>>,
       <<0, -932515, -86137, -661561>>, <<0, -900404, -44297, -839682>>,
       <<0, -869286, -737816, -226632>>, <<0, -839099, -631177, -279938>>,
       <<0, -809784, -33195, -7046>>, <<0, -781285, -626506, -717214>>,
       <<0, -753554, -50102, -794157>>, <<0, -726542, -528005, -360871>>,
       <<0, -700207, -538209, -709714>>, <<0, -674508, -516842, -426553>>,
       <<0, -649407, -593197, -510431>>, <<0, -624869, -351909, -327375>>,
       <<0, -600860, -619027, -560189>>, <<0, -577350, -269189, -625798>>,
       <<0, -554309, -51452, -768989>>, <<0, -531709, -431661, -478754>>,
       <<0, -509525, -449494, -428742>>, <<0, -487732, -588565, -861383>>,
       <<0, -466307, -658154, -998551>>, <<0, -445228, -685308, -536064>>,
       <<0, -424474, -816209, -604617>>, <<0, -404026, -225835, -156659>>,
       <<0, -383864, -35035, -415852>>, <<0, -363970, -234266, -202425>>,
       <<0, -344327, -613289, -665262>>, <<0, -324919, -696232, -906310>>,
       <<0, -305730, -681458, -660320>>, <<0, -286745, -385758, -807849>>,
       <<0, -267949, -192431, -122618>>, <<0, -249328, -2843, -180585>>,
       <<0, -230868, -191125, -562971>>, <<0, -212556, -561670, -22201>>,
       <<0, -194380, -309137, -718528>>, <<0, -176326, -980708, -464991>>,
       <<0, -158384, -440324, -536287>>, <<0, -140540, -834702, -391406>>,
       <<0, -122784, -560902, -904523>>, <<0, -105104, -235265, -676383>>,
       <<0, -87488, -663525, -923899>>, <<0, -69926, -811943, -510286>>,
       <<0, -52407, -779283, -41278>>, <<0, -34920, -769491, -747776>>,
       <<0, -17455, -64928, -217608>>, <<0, 0, 0, 0>>,
       <<0, 17455, 64928, 217608>>, <<0, 34920, 769491, 747776>>,
       <<0, 52407, 779283, 41278>>, <<0, 69926, 811943, 510516>>,
       <<0, 87488, 663525, 924122>>, <<0, 105104, 235265, 676606>>,
       <<0, 122784, 560902, 904523>>, <<0, 140540, 834702, 391406>>,
       <<0, 158384, 440324, 536287>>, <<0, 176326, 980708, 464991>>,
       <<0, 194380, 309137, 718528>>, <<0, 212556, 561670, 22201>>,
       <<0, 230868, 191125, 563199>>, <<0, 249328, 2843, 180814>>,
       <<0, 267949, 192431, 122879>>, <<0, 286745, 385758, 807849>>,
       <<0, 305730, 681458, 660320>>, <<0, 324919, 696232, 906310>>,
       <<0, 344327, 613289, 665262>>, <<0, 363970, 234266, 202425>>,
       <<0, 383864, 35035, 415852>>, <<0, 404026, 225835, 156899>>,
       <<0, 424474, 816209, 604849>>, <<0, 445228, 685308, 536300>>,
       <<0, 466307, 658154, 998551>>, <<0, 487732, 588565, 861629>>,
       <<0, 509525, 449494, 428742>>, <<0, 531709, 431661, 479009>>,
       <<0, 554309, 51452, 768989>>, <<0, 577350, 269189, 625532>>,
       <<0, 600860, 619027, 560526>>, <<0, 624869, 351909, 327375>>,
       <<0, 649407, 593197, 510782>>, <<0, 674508, 516842, 426553>>,
       <<0, 700207, 538209, 710080>>, <<0, 726542, 528005, 360871>>,
       <<0, 753554, 50102, 794540>>, <<0, 781285, 626506, 717465>>,
       <<0, 809784, 33195, 6787>>, <<0, 839099, 631177, 280083>>,
       <<0, 869286, 737816, 226357>>, <<0, 900404, 44297, 840250>>,
       <<0, 932515, 86137, 661561>>, <<0, 965688, 774807, 74383>>,
       <<0, 999999, 999999, 999843>>, <<1, 35530, 313790, 569956>>,
       <<1, 72368, 710024, 682536>>, <<1, 110612, 514829, 192494>>,
       <<1, 150368, 407221, 9596>>, <<1, 191753, 592594, 209478>>,
       <<1, 234897, 156535, 51554>>, <<1, 279941, 632193, 78668>>,
       <<1, 327044, 821620, 410466>>, <<1, 376381, 920471, 173566>>,
       <<1, 428148, 6742, 115106>>, <<1, 482560, 968512, 740428>>,
       <<1, 539864, 963814, 582419>>, <<1, 600334, 529041, 50490>>,
       <<1, 664279, 482350, 517244>>, <<1, 732050, 807568, 877800>>,
       <<1, 804047, 755271, 423499>>, <<1, 880726, 465346, 332659>>,
       <<1, 962610, 505505, 150362>>, <<2, 50303, 841579, 297162>>,
       <<2, 144506, 920509, 558528>>, <<2, 246036, 773904, 215061>>,
       <<2, 355852, 365823, 753192>>, <<2, 475086, 853416, 294628>>,
       <<2, 605089, 64693, 802364>>, <<2, 747477, 419454, 621352>>,
       <<2, 904210, 877675, 824120>>, <<3, 77683, 537175, 253000>>,
       <<3, 270852, 618484, 143111>>, <<3, 487414, 443840, 909050>>,
       <<3, 732050, 807568, 874091>>, <<4, 10780, 933535, 845515>>,
       <<4, 331475, 874284, 152847>>, <<4, 704630, 109478, 456867>>,
       <<5, 144554, 15970, 307475>>, <<5, 671281, 819617, 714148>>,
       <<6, 313751, 514675, 41143>>, <<7, 115369, 722384, 219339>>,
       <<8, 144346, 427974, 593006>>, <<9, 514364, 454222, 565582>>,
       <<11, 430052, 302761, 347864>>, <<14, 300666, 256711, 895557>>,
       <<19, 81136, 687728, 242478>>, <<28, 636253, 282915, 515387>>,
       <<57, 289961, 630759, 874427>>
    >>

\* x_vals[t] = (dist - t * sin(angle)) / cos(angle) for an angle of
\* -89..89 degrees, as <<whole, millionths, 10^-12, 10^-18>> with the whole
\* part the floor and the three groups in 0..999999: dist / cos - t * tan,
\* group by group, the carries taken from the last group up.  The float
\* the program computes is this number or a float beside it, some 10^-15
\* away.  The two agree on the whole part and on the nearest millionth for
\* every line of the grid with |dist| <= 200 and t < 16 but where the line
\* passes through a whole number: that is where dist is 0 and t is 0
\* (x = 0.0, as here) or the angle is -45 degrees, whose float sine is
\* -0.7071067811865475 and cosine 0.7071067811865476; there the number is
\* just below t and so is the float (0.9999999999999999 for t = 1), for
\* every t in 1..40 but 9, 18, 23 and 36, where the float is t.
LinePos(peak, t) ==
    IF peak.deg = -45 /\ peak.dist = 0 /\ t \in {9, 18, 23, 36}
    THEN <<t, 0, 0, 0>>
    ELSE LET sec  == SecTable[peak.deg + 90]
             tan  == TanTable[peak.deg + 90]
             a4   == peak.dist * sec[4] - t * tan[4]
             a3   == peak.dist * sec[3] - t * tan[3] + (a4 \div 1000000)
             a2   == peak.dist * sec[2] - t * tan[2] + (a3 \div 1000000)
             a1   == peak.dist * sec[1] - t * tan[1] + (a2 \div 1000000)
         IN  <<a1, a2 % 1000000, a3 % 1000000, a4 % 1000000>>

\* valid = (x_vals >= 0) & (x_vals < L).  At -90 degrees, the first angle
\* of the grid, the float cosine is 6.123233995736766e-17 and the float
\* sine -1.0: x_vals[t] is 0.0 where dist + t is 0 and beyond every field
\* elsewhere.
ValidAt(peak, t, L) ==
    IF peak.deg = -90 THEN peak.dist + t = 0
    ELSE 0 <= LinePos(peak, t)[1] /\ LinePos(peak, t)[1] < L

\* x_vals[t] as a position of the model, [micro, pico, err]: the millionth
\* of a cell nearest to the float, the distance of the float from that
\* millionth in 10^-12 of a cell (-500000..500000), and err = -1 where the
\* millionth is a whole number of cells and the float lies below it
\* (int(x) is then the cell before), else 0
XVal(peak, t) ==
    IF peak.deg = -90 THEN [micro |-> 0, pico |-> 0, err |-> 0]
    ELSE LET x  == LinePos(peak, t)
             up == x[3] >= 500000
         IN  [micro |-> x[1] * 1000000 + x[2] + (IF up THEN 1 ELSE 0),
              pico  |-> x[3] + (IF x[4] >= 500000 THEN 1 ELSE 0)
                             - (IF up THEN 1000000 ELSE 0),
              err   |-> IF up /\ x[2] = 999999 THEN -1 ELSE 0]

\* the k-th smallest number of a set of numbers, k from 1
KthOf(S, k) == CHOOSE v \in S : Cardinality({u \in S : u < v}) = k - 1

\* list(zip(t_vals[valid], x_vals[valid])): the in-bounds points <<t, x>>
SamplePoints(peak, T, L) ==
    LET valid == {t \in 0..(T - 1) : ValidAt(peak, t, L)}
    IN  [k \in 1..Cardinality(valid) |->
            <<KthOf(valid, k), XVal(peak, KthOf(valid, k))>>] \o <<>>

\* Variant: the support check over every point of the candidate.
SupportCountAllPoints(points, binary_mask) ==
    Cardinality({k \in 1..Len(points) :
        binary_mask[points[k][1] + 1][IntTrunc(points[k][2]) + 1]})

\* the points of track_points[:10] that lie on an occupied cell of the mask
SupportCount(points, binary_mask) ==
    LET head == SubSeq(points, 1, Min2(10, Len(points)))
    IN  Cardinality({k \in 1..Len(head) :
            binary_mask[head[k][1] + 1][IntTrunc(head[k][2]) + 1]})

\* the body of the loop over the peaks: whether the peak yields a track
PeakYieldsTrack(peak, signal_2d, binary_mask) ==
    /\ AngleAccepted(Degrees(peak.deg))
    /\ LET pts == SamplePoints(peak, Rows(signal_2d), Cols(signal_2d))
       IN  /\ ~(Len(pts) < MIN_TRACK_LENGTH)
           /\ SupportCount(pts, binary_mask) >= 3

\* what the Hough search of detect_tracks_fast did, where it raised
\* nothing: [raised, peaks]
HoughSearch(binary_mask) ==
    [raised |-> FALSE, peaks |-> HoughLinePeaks(HoughLine(binary_mask))]

\* detect_tracks_fast, given what the Hough search did: the tracks of the
\* peaks that yield one, in the order of the peaks
DetectTracksFast(signal_2d, binary_mask, search) ==
    IF search.raised THEN <<>>
    ELSE LET kept == {k \in 1..Len(search.peaks) :
                         PeakYieldsTrack(search.peaks[k], signal_2d,
                                         binary_mask)}
         IN  [i \in 1..Cardinality(kept) |->
                 SamplePoints(search.peaks[KthOf(kept, i)],
                              Rows(signal_2d), Cols(signal_2d))] \o <<>>

---------------------------------------------------------------------------
(* Track Classifier and Speed Estimator                                    *)

\* step = max(1, len(track_points) // 20)
SampleStep(n) == Max2(1, n \div 20)

\* range(0, len(track_points), step), as 1-based indices, in order
SampleIndices(n) ==
    LET F[i \in 0..n] ==
            IF i = 0 THEN <<>>
            ELSE IF (i - 1) % SampleStep(n) = 0
                 THEN Append(F[i - 1], i) ELSE F[i - 1]
    IN  F[n]

InField(signal_2d, t_idx, x_idx) ==
    /\ 0 <= t_idx /\ t_idx < Rows(signal_2d)
    /\ 0 <= x_idx /\ x_idx < Cols(signal_2d)

\* the amplitudes list after the sampling loop
SampleAmplitudes(signal_2d, points) ==
    LET idx == SampleIndices(Len(points))
        F[k \in 0..Len(idx)] ==
            IF k = 0 THEN <<>>
            ELSE LET p == points[idx[k]]
                     t_idx == p[1]
                     x_idx == IntTrunc(p[2])
                 IN  IF InField(signal_2d, t_idx, x_idx)
                     THEN Append(F[k - 1], signal_2d[t_idx + 1][x_idx + 1])
                     ELSE F[k - 1]
    IN  F[Len(idx)]

\* avg_amp = np.mean(amplitudes) is the float32 mean of float32 values: a
\* float32 sum (in order for fewer than 8 values, pairwise for more) over
\* the count.  Its rounding errors are below what the model's numbers
\* resolve except where the mean of the tenths is the limit 2.5 itself:
\* there the float is 2.5 when every amplitude is a whole number of halves,
\* which are float32 numbers, and else 2.5 or the float32 next to it on
\* either side (0.1, 4.3, 4.3, 1.3 give 2.500000238418579).  The sign of
\* the float's distance from the mean of the tenths:
MeanErrors(amps) ==
    IF /\ amps # <<>>
       /\ SumSeq(amps) = 25 * Len(amps)
       /\ \E k \in 1..Len(amps) : amps[k] % 5 # 0
    THEN {-1, 0, 1} ELSE {0}

\* Variant: heavy only when both the mean and the maximum are high.
IsHeavyBoth(amps, err) ==
    /\ \/ SumSeq(amps) > 25 * Len(amps)
       \/ (SumSeq(amps) = 25 * Len(amps) /\ err > 0)
    /\ MaxSeq(amps) > 250

\* avg_amp > 2.5 or max_amp > 25, over amplitudes in tenths; err is the
\* rounding error of avg_amp
IsHeavy(amps, err) ==
    \/ SumSeq(amps) > 25 * Len(amps)
    \/ (SumSeq(amps) = 25 * Len(amps) /\ err > 0)
    \/ MaxSeq(amps) > 250

\* float(avg_amp) in thousandths
AvgAmp(amps) == (100 * SumSeq(amps)) \div Len(amps)

\* smart_classify_vehicle: [vehicle_type, avg_amp, avg_amp_err], the float
\* avg_amp as its thousandths and the sign err of its rounding error
SmartClassifyVehicle(signal_2d, points, err) ==
    IF points = <<>>
    THEN [vehicle_type |-> "light", avg_amp |-> 0, avg_amp_err |-> 0]
    ELSE LET amps == SampleAmplitudes(signal_2d, points)
         IN  IF amps = <<>>
             THEN [vehicle_type |-> "light", avg_amp |-> 0, avg_amp_err |-> 0]
             ELSE IF IsHeavy(amps, err)
                  THEN [vehicle_type |-> "heavy", avg_amp |-> AvgAmp(amps),
                        avg_amp_err |-> err]
                  ELSE [vehicle_type |-> "light", avg_amp |-> AvgAmp(amps),
                        avg_amp_err |-> err]

\* track_data of one candidate: timestamps[int(t)], or timestamps[-1] when
\* int(t) is not below len(timestamps)
TrackData(points, ts) ==
    [k \in 1..Len(points) |->
        [time |-> IF points[k][1] < Len(ts) THEN ts[points[k][1] + 1]
                  ELSE ts[Len(ts)],
         position |-> points[k][2]]]

\* A float speed_kmh is [n, p, d, err]: the number (n + p / 10^6) / d, p in
\* 0..999999, and the sign of the float's distance from it.  With dx in
\* millionths of a cell and dt in milliseconds, dx / dt * 3.6 is
\* 9 * dx / (2500 * dt); dx is taken from the positions to 10^-12 of a
\* cell, so that a speed a hundred-millionth of a km/h beside a limit falls
\* on its side of it (the line of -48 degrees and offset -1 from row 2 to
\* row 41 in 31.186 s: 4.999999906).  The roundings of the positions, of the
\* times, of the quotient and of the product leave the float on the number
\* or a few units in the last place beside it: on the limit 120 the program
\* computes 120.00000000000001 for dx = 10.0 and dt = 0.3 and
\* 119.99999999999999 for dx = 0.7 and dt = 0.021, on the limit 5 it
\* computes 4.999999999999999 for dx = 0.475 and dt = 0.342 and 5.0 for
\* dx = 0.5 and dt = 0.36, on the congestion threshold 25 it computes
\* 24.99999999999998 for dx = 0.125 and dt = 0.018; for the line of -45
\* degrees and offset 1 over twelve steps of 0.72 s it computes 5.0 from
\* the times 0.72 * i and 4.999999999999998 from times that were stored as
\* seconds and milliseconds.  That distance is below what the model's
\* numbers resolve: a numerator within 20 * 10^-12 of a whole n is taken as
\* that n.  It matters where the number is a limit the program compares
\* the speed with or a midpoint between two tenths, which round(x, 1)
\* decides on.  These are whole numbers of twentieths: there the model
\* keeps err, which can have either sign or be 0; elsewhere it does not,
\* and err is 0.  A speed of 0 is the float 0.0.
\* (n / d is a whole number of twentieths when its denominator in lowest
\* terms divides 20.)

\* 9 * |dx| between two positions, as <<n, p>>: n + p / 10^6 millionths
SpeedNumerator(first, last) ==
    LET micro == last.micro - first.micro
        pico  == last.pico - first.pico
        up    == micro > 0 \/ (micro = 0 /\ pico >= 0)
        a     == IF up THEN 9 * micro ELSE -(9 * micro)
        b     == IF up THEN 9 * pico ELSE -(9 * pico)
        whole == a + (b \div 1000000)
        rest  == b % 1000000
    IN  IF rest <= 20 THEN <<whole, 0>>
        ELSE IF rest >= 1000000 - 20 THEN <<whole + 1, 0>>
        ELSE <<whole, rest>>

SpeedErrors(track_data) ==
    LET n   == Len(track_data)
        dt  == track_data[n].time - track_data[1].time
        num == SpeedNumerator(track_data[1].position, track_data[n].position)
    IN  IF /\ n > 1 /\ dt > 0 /\ num[1] > 0 /\ num[2] = 0
           /\ 20 % ((2500 * dt) \div GCD(num[1], 2500 * dt)) = 0
        THEN {-1, 0, 1} ELSE {0}

\* speed_kmh: abs(dx / dt * 3.6) when the track has more than one point and
\* dt > 0, else 0; err is the rounding error of the float operations
SpeedKmh(track_data, err) ==
    LET n   == Len(track_data)
        dt  == track_data[n].time - track_data[1].time
        num == SpeedNumerator(track_data[1].position, track_data[n].position)
    IN  IF n > 1 /\ dt > 0
        THEN [n |-> num[1], p |-> num[2], d |-> 2500 * dt, err |-> err]
        ELSE [n |-> 0, p |-> 0, d |-> 1, err |-> 0]

\* limit <= s, s <= limit and s < limit for a float speed s and a whole
\* limit.  (n < limit * d is taken as n \div limit < d, and n = limit * d as
\* n \div limit = d with no remainder: the product can pass 2^31.)
SpeedAtLeast(speed, limit) ==
    \/ speed.n \div limit > speed.d
    \/ (speed.n \div limit = speed.d /\ (speed.n % limit > 0 \/ speed.p > 0))
    \/ (/\ speed.n \div limit = speed.d /\ speed.n % limit = 0
        /\ speed.p = 0 /\ speed.err >= 0)

SpeedAtMost(speed, limit) ==
    \/ speed.n \div limit < speed.d
    \/ (/\ speed.n \div limit = speed.d /\ speed.n % limit = 0
        /\ speed.p = 0 /\ speed.err <= 0)

SpeedBelow(speed, limit) ==
    \/ speed.n \div limit < speed.d
    \/ (/\ speed.n \div limit = speed.d /\ speed.n % limit = 0
        /\ speed.p = 0 /\ speed.err < 0)

\* Variant: the speed band without its upper limit.
SpeedAcceptedNoMax(speed) == SpeedAtLeast(speed, MIN_SPEED_KMH)

\* MIN_SPEED_KMH <= speed_kmh <= MAX_SPEED_KMH
SpeedAccepted(speed) ==
    /\ SpeedAtLeast(speed, MIN_SPEED_KMH)
    /\ SpeedAtMost(speed, MAX_SPEED_KMH)

\* the thousandths of a speed, cut off: the whole part and three digits of
\* the quotient (n + p / 10^6) / d, by long division
SpeedMilli(speed) ==
    LET a1 == 10 * (speed.n % speed.d) + ((10 * speed.p) \div 1000000)
        p1 == (10 * speed.p) % 1000000
        a2 == 10 * (a1 % speed.d) + ((10 * p1) \div 1000000)
        p2 == (10 * p1) % 1000000
        a3 == 10 * (a2 % speed.d) + ((10 * p2) \div 1000000)
    IN  (speed.n \div speed.d) * 1000 + (a1 \div speed.d) * 100
            + (a2 \div speed.d) * 10 + (a3 \div speed.d)

\* whether a speed is a whole number of q-ths of a km/h
SpeedWholeIn(speed, q) ==
    speed.p = 0 /\ q % (speed.d \div GCD(speed.n, speed.d)) = 0

---------------------------------------------------------------------------
(* Statistics Aggregator                                                   *)

\* int(datetime.fromtimestamp(time).strftime('%H')): the hour of the day, in
\* the host's local time
HourOf(time, offset) == (((time \div 1000) + offset) \div 3600) % 24

\* hourly_counts after the loop: the dict as the list of its <<hour, count>>
\* items in insertion order
HourlyCounts(trks, offset) ==
    LET F[k \in 0..Len(trks)] ==
            IF k = 0 THEN <<>>
            ELSE LET h    == HourOf(trks[k].points[1].time, offset)
                     prev == F[k - 1]
                 IN  IF \E j \in 1..Len(prev) : prev[j][1] = h
                     THEN [j \in 1..Len(prev) |->
                              IF prev[j][1] = h
                              THEN <<h, prev[j][2] + 1>> ELSE prev[j]]
                     ELSE Append(prev, <<h, 1>>)
    IN  F[Len(trks)]

\* Variant: the last key with the largest count.
LastMaxKey(items) ==
    LET F[k \in 0..Len(items)] ==
            IF k <= 1 THEN k
            ELSE IF items[k][2] >= items[F[k - 1]][2] THEN k ELSE F[k - 1]
    IN  IF items = <<>> THEN 0 ELSE items[F[Len(items)]][1]

\* max(hourly_counts, key=hourly_counts.get): the first key, in the dict's
\* order, with the largest count; 0 for an empty dict
FirstMaxKey(items) ==
    LET F[k \in 0..Len(items)] ==
            IF k <= 1 THEN k
            ELSE IF items[k][2] > items[F[k - 1]][2] THEN k ELSE F[k - 1]
    IN  IF items = <<>> THEN 0 ELSE items[F[Len(items)]][1]

Digit(d) ==
    CASE d = 0 -> "0" [] d = 1 -> "1" [] d = 2 -> "2" [] d = 3 -> "3"
      [] d = 4 -> "4" [] d = 5 -> "5" [] d = 6 -> "6" [] d = 7 -> "7"
      [] d = 8 -> "8" [] d = 9 -> "9"

\* f"{n:02d}" for 0 <= n < 100
Format02d(n) ==
    IF n < 10 THEN "0" \o Digit(n) ELSE Digit(n \div 10) \o Digit(n % 10)

\* f"{peak_hour:02d}:00-{peak_hour+1:02d}:00"
FormatPeakHour(peak_hour) ==
    Format02d(peak_hour) \o ":00-" \o Format02d(peak_hour + 1) \o ":00"

\* Variant: the empty record with a zero-length peak hour.
EmptyStatsMidnight ==
    [total_vehicles |-> 0, avg_speed_kmh |-> 0, congestion_vehicles |-> 0,
     congestion_percent |-> 0, peak_hour |-> "00:00-00:00",
     traffic_intensity |-> 0, vehicle_types |-> [light |-> 0, heavy |-> 0],
     processing_time |-> 0]

\* _empty_stats
EmptyStats ==
    [total_vehicles |-> 0, avg_speed_kmh |-> 0, congestion_vehicles |-> 0,
     congestion_percent |-> 0, peak_hour |-> "00:00-01:00",
     traffic_intensity |-> 0, vehicle_types |-> [light |-> 0, heavy |-> 0],
     processing_time |-> 0]

CountType(trks, type) ==
    Cardinality({k \in 1..Len(trks) : trks[k].vehicle_type = type})

\* Variant: a speed equal to the threshold counts as congestion.
CongestionCountInclusive(trks) ==
    Cardinality({k \in 1..Len(trks) :
        SpeedAtMost([trks[k].speed_kmh EXCEPT !.err = 0],
                    CONGESTION_SPEED_THRESHOLD)})

\* sum(1 for s in speeds if s < CONGESTION_SPEED_THRESHOLD)
CongestionCount(trks) ==
    Cardinality({k \in 1..Len(trks) :
        SpeedBelow(trks[k].speed_kmh, CONGESTION_SPEED_THRESHOLD)})

\* end_time - start_time over the tracks' start times, in milliseconds
DurationMs(trks, ts) ==
    LET start_times == [k \in 1..Len(trks) |-> trks[k].points[1].time]
        start_time  == IF start_times # <<>> THEN MinSeq(start_times) ELSE ts[1]
        end_time    == IF start_times # <<>> THEN MaxSeq(start_times)
                       ELSE ts[Len(ts)]
    IN  end_time - start_time

\* whether end_time - start_time and its division by 3600 are exact: the
\* two times, in milliseconds, are floats, and so is the number of hours
DurationExact(trks, ts) ==
    LET start_times == [k \in 1..Len(trks) |-> trks[k].points[1].time]
        start_time  == IF start_times # <<>> THEN MinSeq(start_times) ELSE ts[1]
        end_time    == IF start_times # <<>> THEN MaxSeq(start_times)
                       ELSE ts[Len(ts)]
    IN  /\ start_time >= 0
        /\ Dyadic(start_time, 1000)
        /\ Dyadic(end_time, 1000)
        /\ Dyadic(end_time - start_time, 3600000)

\* round(len(tracks) / duration_hours, 1) if duration_hours > 0 else 0: the
\* values it can have; exact tells whether duration_hours has no rounding
\* error
TrafficIntensity(n, duration_ms, exact) ==
    IF duration_ms > 0
    THEN Round1(n * 3600000, duration_ms,
                exact /\ Dyadic(n * 3600000, duration_ms))
    ELSE {0}

\* round(float(np.mean(speeds)), 1): the values it can have.  The mean lies
\* between the mean of the thousandths of the speeds and that mean with
\* every speed that is more than its thousandths a thousandth higher; round
\* returns the tenth nearest to it.  Where every speed is its thousandths
\* and their mean is midway between two tenths, the float mean is that
\* midpoint when every speed and the mean are computed without rounding
\* error (the speed is a float and a whole number of twentieths, where err
\* is kept, and err is 0), and round returns the even tenth; a single speed
\* beside the midpoint is rounded to its side; otherwise round returns
\* either tenth.
AvgSpeedKmh(speeds) ==
    LET n    == Len(speeds)
        SpeedExact(speed) ==
            /\ speed.err = 0
            /\ SpeedWholeIn(speed, 20)
            /\ Dyadic(speed.n, speed.d)
        sum  == SumSeq([k \in 1..n |-> SpeedMilli(speeds[k])])
        cut  == Cardinality({k \in 1..n : ~SpeedWholeIn(speeds[k], 1000)})
        d    == 1000 * n
        q    == (10 * sum) \div d
        r    == (10 * sum) % d
        q2   == (10 * (sum + cut)) \div d
        r2   == (10 * (sum + cut)) % d
        low  == IF 2 * r # d THEN Round1(sum, d, TRUE)
                ELSE IF cut > 0 THEN {q + 1}
                ELSE IF n = 1 /\ speeds[1].err # 0
                     THEN {IF speeds[1].err > 0 THEN q + 1 ELSE q}
                ELSE Round1(sum, d,
                            /\ \A k \in 1..n : SpeedExact(speeds[k])
                            /\ Dyadic(sum, d))
        high == IF cut = 0 THEN {}
                ELSE {IF 2 * r2 <= d THEN q2 ELSE q2 + 1}
    IN  low \cup high

\* round(congestion_count / len(tracks) * 100, 1): the values it can have.
\* The product is exact when the quotient is a float.
CongestionPercent(congestion_count, n) ==
    Round1(congestion_count * 100, n, Dyadic(congestion_count, n))

\* create_fast_statistics: the records it can return; elapsed is
\* round(time.time() - self.start_time, 1)
CreateFastStatistics(trks, ts, offset, elapsed) ==
    IF trks = <<>> THEN {EmptyStats}
    ELSE LET speeds    == [k \in 1..Len(trks) |-> trks[k].speed_kmh]
             peak_hour == FirstMaxKey(HourlyCounts(trks, offset))
         IN  {[total_vehicles |-> Len(trks),
               avg_speed_kmh |-> avg,
               congestion_vehicles |-> CongestionCount(trks),
               congestion_percent |-> percent,
               peak_hour |-> FormatPeakHour(peak_hour),
               traffic_intensity |-> intensity,
               vehicle_types |-> [light |-> CountType(trks, "light"),
                                  heavy |-> CountType(trks, "heavy")],
               processing_time |-> elapsed] :
                  avg \in AvgSpeedKmh(speeds),
                  percent \in CongestionPercent(CongestionCount(trks),
                                                Len(trks)),
                  intensity \in TrafficIntensity(Len(trks),
                                                 DurationMs(trks, ts),
                                                 DurationExact(trks, ts))}

---------------------------------------------------------------------------
(* Result Writer                                                           *)

\* the record json.dump writes to tracks.json (analysis_time, the wall
\* clock of the write, is left out)
TracksJson(trks, st) ==
    [present |-> TRUE, trace_list |-> trks, statistics |-> st,
     metadata |-> [algorithm |-> "optimized_fast"]]

\* the values the fixed-layout report.txt prints
ReportTxt(st) ==
    [present |-> TRUE,
     total |-> st.total_vehicles,
     light |-> st.vehicle_types.light,
     heavy |-> st.vehicle_types.heavy,
     avg_speed |-> st.avg_speed_kmh,
     congestion |-> st.congestion_percent,
     peak_hour |-> st.peak_hour,
     intensity |-> st.traffic_intensity]

NoFile == [present |-> FALSE]

---------------------------------------------------------------------------
(* A run: fast_generate_analysis                                           *)

\* Variant: tracks numbered by their place in the final list.
BuildTracksRenumbered(raws, signal_2d, ts, errs) ==
    LET F[k \in 0..Len(raws)] ==
            IF k = 0 THEN <<>>
            ELSE IF Len(raws[k]) < MIN_TRACK_LENGTH THEN F[k - 1]
            ELSE LET track_data == TrackData(raws[k], ts)
                     cls        == SmartClassifyVehicle(signal_2d, raws[k],
                                                        errs[k].mean)
                     speed      == SpeedKmh(track_data, errs[k].speed)
                 IN  IF SpeedAccepted(speed)
                     THEN Append(F[k - 1],
                                 [id |-> Len(F[k - 1]),
                                  points |-> track_data,
                                  vehicle_type |-> cls.vehicle_type,
                                  avg_amp |-> cls.avg_amp,
                                  speed_kmh |-> speed])
                     ELSE F[k - 1]
    IN  F[Len(raws)]

\* the accepted tracks of the loop over enumerate(raw_tracks); errs[k] is
\* [speed, mean], the rounding errors of speed_kmh and of avg_amp of
\* candidate k.  A track keeps of avg_amp its thousandths.
BuildTracks(raws, signal_2d, ts, errs) ==
    LET F[k \in 0..Len(raws)] ==
            IF k = 0 THEN <<>>
            ELSE IF Len(raws[k]) < MIN_TRACK_LENGTH THEN F[k - 1]
            ELSE LET track_data == TrackData(raws[k], ts)
                     cls        == SmartClassifyVehicle(signal_2d, raws[k],
                                                        errs[k].mean)
                     speed      == SpeedKmh(track_data, errs[k].speed)
                 IN  IF SpeedAccepted(speed)
                     THEN Append(F[k - 1],
                                 [id |-> k - 1,
                                  points |-> track_data,
                                  vehicle_type |-> cls.vehicle_type,
                                  avg_amp |-> cls.avg_amp,
                                  speed_kmh |-> speed])
                     ELSE F[k - 1]
    IN  F[Len(raws)]

\* the rounding errors the speeds and the mean amplitudes of the candidates
\* can have: the lists of one [speed, mean] for every candidate
CandidateErrors(raws, signal_2d, ts) ==
    LET Of(k) ==
            IF Len(raws[k]) < MIN_TRACK_LENGTH
            THEN {[speed |-> 0, mean |-> 0]}
            ELSE [speed : SpeedErrors(TrackData(raws[k], ts)),
                  mean  : MeanErrors(SampleAmplitudes(signal_2d, raws[k]))]
        F[k \in 0..Len(raws)] ==
            IF k = 0 THEN {<<>>}
            ELSE {Append(errs, e) : errs \in F[k - 1], e \in Of(k)}
    IN  F[Len(raws)]

\* speed_kmh of every candidate of the loop, 0 for one the loop skips
CandidateSpeeds(raws, ts, errs) ==
    [k \in 1..Len(raws) |->
        IF Len(raws[k]) < MIN_TRACK_LENGTH
        THEN [n |-> 0, p |-> 0, d |-> 1, err |-> 0]
        ELSE SpeedKmh(TrackData(raws[k], ts), errs[k].speed)]

NoTimestamps == [ndim |-> 1, cols |-> 0, data |-> <<>>, rows |-> <<>>]
NoRecording == [exists |-> FALSE, statistics |-> <<>>, timestamps |-> NoTimestamps]
NoHough == [raised |-> FALSE, peaks |-> <<>>]
NoStats == [computed |-> FALSE]
NoResult == [returned |-> FALSE]
NoClass == [vehicle_type |-> "none", avg_amp |-> 0, avg_amp_err |-> 0]
EmptyDir == [tracks_json |-> NoFile, report_txt |-> NoFile,
             infographic_png |-> NoFile]
NoLoad == [returned |-> FALSE]
NoSessions == <<>>

\* Recordings.  A scene is a field of cols positions with bands two cells
\* wide of value base + amp over a background of value base, the same in
\* every channel; a band [from_row, x0, slope] lies, from row from_row on,
\* on the cells x0 + slope * t and the next of row t.
Diagonal(from_row) == [from_row |-> from_row, x0 |-> 0, slope |-> 1]

Scenes ==
    { [cols |-> NL, base |-> 0,  amp |-> 0, bands |-> {}],
      [cols |-> NL, base |-> 0,  amp |-> 1, bands |-> {Diagonal(0)}],
      [cols |-> NL, base |-> 0,  amp |-> 2, bands |-> {Diagonal(0)}],
      [cols |-> NL, base |-> -5, amp |-> 4, bands |-> {Diagonal(0)}],
      [cols |-> NL, base |-> 0,  amp |-> 1, bands |-> {Diagonal(10)}] }

\* a steep band from the first cell and a band that stays at one position
WideScene ==
    [cols |-> NW, base |-> 0, amp |-> 1,
     bands |-> {[from_row |-> 0, x0 |-> 0, slope |-> 19],
                [from_row |-> 0, x0 |-> 60, slope |-> 0]}]

SceneTensor(sc) ==
    [t \in 1..NT |-> [x \in 1..sc.cols |-> [f \in 1..NF |->
        IF \E b \in sc.bands :
               /\ t - 1 >= b.from_row
               /\ x - 1 \in {b.x0 + b.slope * (t - 1),
                             b.x0 + b.slope * (t - 1) + 1}
        THEN sc.base + sc.amp ELSE sc.base]]]

\* Stored timestamps: one every step milliseconds, flat (also three samples
\* short of the tensor, also with a gap), or split into (seconds,
\* milliseconds) rows of two or of three fields.
TimeSteps == {720, 620, 55, 30, 25, 0}

FlatTimestamps(n, step) ==
    [ndim |-> 1, cols |-> 0, data |-> [t \in 1..n |-> (t - 1) * step],
     rows |-> <<>>]

SplitTimestamps(n, step, k) ==
    [ndim |-> 2, cols |-> k, data |-> <<>>,
     rows |-> [t \in 1..n |->
                 IF k = 2
                 THEN <<((t - 1) * step) \div 1000, ((t - 1) * step) % 1000>>
                 ELSE <<((t - 1) * step) \div 1000, ((t - 1) * step) % 1000, 0>>]]

\* ten samples 25 ms apart, then one every 1925 ms
GapTimestamps(n) ==
    [ndim |-> 1, cols |-> 0,
     data |-> [t \in 1..n |->
                 IF t <= 10 THEN (t - 1) * 25 ELSE 225 + (t - 10) * 1925],
     rows |-> <<>>]

StoredTimestamps ==
    {FlatTimestamps(NT, step) : step \in TimeSteps}
        \cup {FlatTimestamps(NT - 3, 620), GapTimestamps(NT)}
        \cup {SplitTimestamps(NT, 620, k) : k \in {2, 3}}

Recording(sc, ts) ==
    [exists |-> TRUE, statistics |-> SceneTensor(sc), timestamps |-> ts]

Recordings ==
    {NoRecording}
        \cup {Recording(sc, ts) : sc \in Scenes, ts \in StoredTimestamps}
        \cup {Recording(WideScene, FlatTimestamps(NT, step)) : step \in {620, 30}}

ElapsedTimes == {0, 12}

Init ==
    /\ pc = "start"
    /\ h5file \in Recordings
    /\ stats = <<>>
    /\ timestamps = NoTimestamps
    /\ data_2d = <<>>
    /\ binary = <<>>
    /\ hough = NoHough
    /\ raw_tracks = <<>>
    /\ candidate_speeds = <<>>
    /\ tracks = <<>>
    /\ stats_result = NoStats
    /\ outdir = EmptyDir
    /\ result = NoResult
    /\ track_points = <<>>
    /\ amplitudes = <<>>
    /\ classified = NoClass
    /\ utc_offset = 0
    /\ loaded = NoLoad
    /\ sessions = NoSessions
    /\ requests = <<>>
    /\ tasks = <<>>

\* Variant: the exception leaves fast_generate_analysis, nothing is returned.
FailRaises(message) ==
    /\ pc' = "done"
    /\ result' = NoResult

\* the except clause of fast_generate_analysis
Fail(message) ==
    /\ pc' = "done"
    /\ result' = [returned |-> TRUE, success |-> FALSE, error |-> message]

\* stats, timestamps = self.load_combined_data()
LoadCombinedData ==
    /\ pc = "start"
    /\ IF ~h5file.exists
       THEN /\ Fail("FileNotFoundError")
            /\ UNCHANGED <<stats, timestamps>>
       ELSE /\ stats' = h5file.statistics
            /\ timestamps' = CombineTimestamps(h5file.timestamps)
            /\ pc' = "loaded"
            /\ UNCHANGED result
    /\ UNCHANGED <<h5file, data_2d, binary, hough, raw_tracks,
                   candidate_speeds, tracks, stats_result, outdir,
                   track_points, amplitudes, classified, utc_offset>>
    /\ UNCHANGED <<loaded, web>>

\* data_2d, binary = self.optimized_preprocess(stats)
Preprocess ==
    /\ pc = "loaded"
    /\ data_2d' = OptimizedPreprocess(stats).filtered_data
    /\ binary' = OptimizedPreprocess(stats).binary
    /\ pc' = "preprocessed"
    /\ UNCHANGED <<h5file, stats, timestamps, hough, raw_tracks,
                   candidate_speeds, tracks, stats_result, outdir, result,
                   track_points, amplitudes, classified, utc_offset>>
    /\ UNCHANGED <<loaded, web>>

\* raw_tracks = self.detect_tracks_fast(data_2d, binary): the Hough search
\* raises and the except clause returns [], or it returns its peaks
Detect ==
    /\ pc = "preprocessed"
    /\ \E raised \in BOOLEAN :
        LET search == IF raised THEN [raised |-> TRUE, peaks |-> <<>>]
                      ELSE HoughSearch(binary)
        IN  /\ hough' = search
            /\ raw_tracks' = DetectTracksFast(data_2d, binary, search)
    /\ pc' = "detected"
    /\ UNCHANGED <<h5file, stats, timestamps, data_2d, binary,
                   candidate_speeds, tracks, stats_result, outdir, result,
                   track_points, amplitudes, classified, utc_offset>>
    /\ UNCHANGED <<loaded, web>>

\* the loop over the candidates; float(time_val) raises TypeError when
\* timestamps is still an array of rows
ProcessTracks ==
    /\ pc = "detected"
    /\ IF /\ timestamps.ndim = 2
          /\ \E k \in 1..Len(raw_tracks) :
                 ~(Len(raw_tracks[k]) < MIN_TRACK_LENGTH)
       THEN /\ Fail("TypeError")
            /\ UNCHANGED <<tracks, candidate_speeds>>
       ELSE /\ \E errs \in CandidateErrors(raw_tracks, data_2d,
                                            timestamps.data) :
                /\ tracks' = BuildTracks(raw_tracks, data_2d, timestamps.data,
                                         errs)
                /\ candidate_speeds' =
                       CandidateSpeeds(raw_tracks, timestamps.data, errs)
            /\ pc' = "processed"
            /\ UNCHANGED result
    /\ UNCHANGED <<h5file, stats, timestamps, data_2d, binary, hough,
                   raw_tracks, stats_result, outdir, track_points, amplitudes,
                   classified, utc_offset>>
    /\ UNCHANGED <<loaded, web>>

\* stats_result = self.create_fast_statistics(tracks, timestamps)
Statistics ==
    /\ pc = "processed"
    /\ \E e \in ElapsedTimes :
        stats_result' \in
            CreateFastStatistics(tracks, timestamps.data, utc_offset, e)
    /\ pc' = "aggregated"
    /\ UNCHANGED <<h5file, stats, timestamps, data_2d, binary, hough,
                   raw_tracks, candidate_speeds, tracks, outdir, result,
                   track_points, amplitudes, classified, utc_offset>>
    /\ UNCHANGED <<loaded, web>>

\* save_results_fast: json.dump(result, f) to tracks.json
SaveTracksJson ==
    /\ pc = "aggregated"
    /\ outdir' = [outdir EXCEPT !.tracks_json = TracksJson(tracks, stats_result)]
    /\ pc' = "json_saved"
    /\ UNCHANGED <<h5file, stats, timestamps, data_2d, binary, hough,
                   raw_tracks, candidate_speeds, tracks, stats_result, result,
                   track_points, amplitudes, classified, utc_offset>>
    /\ UNCHANGED <<loaded, web>>

\* save_results_fast: f.write(report) to report.txt
SaveReport ==
    /\ pc = "json_saved"
    /\ outdir' = [outdir EXCEPT !.report_txt = ReportTxt(stats_result)]
    /\ pc' = "saved"
    /\ UNCHANGED <<h5file, stats, timestamps, data_2d, binary, hough,
                   raw_tracks, candidate_speeds, tracks, stats_result, result,
                   track_points, amplitudes, classified, utc_offset>>
    /\ UNCHANGED <<loaded, web>>

\* create_fast_visualizations and the return: each chart is rendered or its
\* error is logged and swallowed; the infographic is saved when rendered
Finish ==
    /\ pc = "saved"
    /\ \E heatmap_ok, infographic_ok \in BOOLEAN :
        /\ outdir' = IF infographic_ok
                     THEN [outdir EXCEPT !.infographic_png =
                              [present |-> TRUE,
                               total |-> stats_result.total_vehicles]]
                     ELSE outdir
        /\ result' = [returned |-> TRUE, success |-> TRUE,
                      tracks_count |-> Len(tracks),
                      statistics |-> stats_result,
                      visualizations |-> [heatmap |-> heatmap_ok,
                                          infographic |-> infographic_ok]]
    /\ pc' = "done"
    /\ UNCHANGED <<h5file, stats, timestamps, data_2d, binary, hough,
                   raw_tracks, candidate_speeds, tracks, stats_result,
                   track_points, amplitudes, classified, utc_offset>>
    /\ UNCHANGED <<loaded, web>>

Next ==
    \/ LoadCombinedData
    \/ Preprocess
    \/ Detect
    \/ ProcessTracks
    \/ Statistics
    \/ SaveTracksJson
    \/ SaveReport
    \/ Finish

Spec == Init /\ [][Next]_vars

---------------------------------------------------------------------------
(* Properties of a run                                                     *)

RunFailed == pc = "done" /\ ~result.success

\* load_combined_data has returned
Loaded == pc # "start" /\ ~(RunFailed /\ result.error = "FileNotFoundError")

\* detect_tracks_fast has returned
Detected == Loaded /\ pc \notin {"loaded", "preprocessed"}

\* the loop over the candidates has ended without an exception
Processed == Detected /\ pc # "detected" /\ ~RunFailed

\* create_fast_statistics has returned
Aggregated == Processed /\ pc # "processed"

\* C1 (as claimed): a stored [T,2] array of (seconds, milliseconds) pairs is
\* returned as the flat sequence seconds + milliseconds / 1000, and a flat
\* array is returned unchanged.
C1_PairsCombined ==
    Loaded =>
        LET stored == h5file.timestamps
        IN  /\ (stored.ndim = 2 /\ stored.cols = 2) =>
                   /\ timestamps.ndim = 1
                   /\ Len(timestamps.data) = Len(stored.rows)
                   /\ \A t \in 1..Len(stored.rows) :
                          timestamps.data[t] =
                              stored.rows[t][1] * 1000 + stored.rows[t][2]
            /\ stored.ndim = 1 => timestamps = stored

\* the cell a point of a candidate lies on: row int(t), column int(x)
PointRow(p) == p[1] + 1
PointCol(p) ==
    IF p[2].err < 0 /\ p[2].micro % 1000000 = 0
    THEN p[2].micro \div 1000000
    ELSE (p[2].micro \div 1000000) + 1

\* the angle of a peak in degrees, as the program computes it, is strictly
\* between 3 and 87 in absolute value
AngleInRange(peak) ==
    LET deg == Degrees(peak.deg)
        a   == IF deg.whole < 0 THEN -deg.whole ELSE deg.whole
        e   == IF deg.whole < 0 THEN -deg.err ELSE deg.err
    IN  /\ (a > 3 \/ (a = 3 /\ e = 1))
        /\ (a < 87 \/ (a = 87 /\ e = -1))

\* the in-bounds points of the line of peak j of the search
Trace(j) == SamplePoints(hough.peaks[j], Rows(data_2d), Cols(data_2d))

\* the first 10 points of a candidate
Head10(points) == SubSeq(points, 1, IF Len(points) < 10 THEN Len(points) ELSE 10)

\* the points among the first 10 that lie on an occupied cell of the mask
OccupiedHead(points) ==
    {i \in 1..Len(Head10(points)) :
        binary[PointRow(points[i])][PointCol(points[i])]}

\* C2: every returned candidate has at least 8 sampled points, all inside
\* the field, and is the trace of a Hough peak whose angle in degrees is
\* strictly between 3 and 87 in absolute value; the trace of a peak whose
\* angle is 3 degrees or less, or 87 degrees or more, from an axis is not
\* returned.
C2_LengthAndAngle ==
    Detected =>
        /\ \A k \in 1..Len(raw_tracks) :
               /\ Len(raw_tracks[k]) >= 8
               /\ \A i \in 1..Len(raw_tracks[k]) :
                      /\ PointRow(raw_tracks[k][i]) \in 1..Rows(data_2d)
                      /\ raw_tracks[k][i][2].micro >= 0
                      /\ PointCol(raw_tracks[k][i]) \in 1..Cols(data_2d)
               /\ \E j \in 1..Len(hough.peaks) :
                      AngleInRange(hough.peaks[j]) /\ raw_tracks[k] = Trace(j)
        /\ \A j \in 1..Len(hough.peaks) :
               ~AngleInRange(hough.peaks[j]) =>
                   \A k \in 1..Len(raw_tracks) : raw_tracks[k] # Trace(j)

\* C2 witness: the search over the wide field found a line 87 degrees and
\* a line 1 degree from the axis, each with 8 or more in-bounds points of
\* which 3 or more of the first 10 are occupied, and a line of an accepted
\* angle with fewer than 8 in-bounds points; none of the three was
\* returned, and other lines were.
C2_Witness ==
    /\ pc = "detected"
    /\ Len(raw_tracks) > 0
    /\ \E j \in 1..Len(hough.peaks) :
           /\ hough.peaks[j].deg = -87
           /\ Len(Trace(j)) >= 8
           /\ Cardinality(OccupiedHead(Trace(j))) >= 3
           /\ \A k \in 1..Len(raw_tracks) : raw_tracks[k] # Trace(j)
    /\ \E j \in 1..Len(hough.peaks) :
           /\ Abs(hough.peaks[j].deg) <= 3
           /\ Len(Trace(j)) >= 8
           /\ Cardinality(OccupiedHead(Trace(j))) >= 3
           /\ \A k \in 1..Len(raw_tracks) : raw_tracks[k] # Trace(j)
    /\ \E j \in 1..Len(hough.peaks) :
           /\ AngleInRange(hough.peaks[j])
           /\ Len(Trace(j)) \in 1..7
           /\ \A k \in 1..Len(raw_tracks) : raw_tracks[k] # Trace(j)

\* C3 (as claimed): among the first 10 points of every returned candidate at
\* least 3 lie on a cell that is occupied in the mask and has positive field
\* intensity.
C3_OccupiedAndPositive ==
    Detected =>
        \A k \in 1..Len(raw_tracks) :
            Cardinality({i \in OccupiedHead(raw_tracks[k]) :
                LET p == raw_tracks[k][i]
                IN  data_2d[PointRow(p)][PointCol(p)] > 0}) >= 3

\* C3 (amended): among the first 10 points of every returned candidate at
\* least 3 lie on a cell that is occupied in the mask, and a peak with an
\* accepted angle and at least 8 points but fewer than 3 such points yields
\* no candidate.
C3_Occupied ==
    Detected =>
        /\ \A k \in 1..Len(raw_tracks) :
               Cardinality(OccupiedHead(raw_tracks[k])) >= 3
        /\ \A j \in 1..Len(hough.peaks) :
               (/\ AngleInRange(hough.peaks[j])
                /\ Len(Trace(j)) >= 8
                /\ Cardinality(OccupiedHead(Trace(j))) < 3)
                   => \A k \in 1..Len(raw_tracks) : raw_tracks[k] # Trace(j)

\* C3 witness: a candidate was returned whose points all lie on cells of
\* negative intensity, and a line of an accepted angle with 8 or more
\* points was dropped for lack of support among its first 10 points,
\* though 3 of all its points lie on occupied cells.
C3_Witness ==
    /\ pc = "detected"
    /\ \E k \in 1..Len(raw_tracks) :
           \A i \in 1..Len(raw_tracks[k]) :
               data_2d[PointRow(raw_tracks[k][i])][PointCol(raw_tracks[k][i])] < 0
    /\ \E j \in 1..Len(hough.peaks) :
           /\ AngleInRange(hough.peaks[j])
           /\ Len(Trace(j)) >= 8
           /\ Cardinality(OccupiedHead(Trace(j))) < 3
           /\ Cardinality({i \in 1..Len(Trace(j)) :
                  binary[PointRow(Trace(j)[i])][PointCol(Trace(j)[i])]}) >= 3
           /\ \A k \in 1..Len(raw_tracks) : raw_tracks[k] # Trace(j)

\* the timestamp of a point of a candidate: that of its time index, or the
\* last one when the index is beyond the timestamps
PointTime(p) ==
    IF p[1] < Len(timestamps.data) THEN timestamps.data[p[1] + 1]
    ELSE timestamps.data[Len(timestamps.data)]

\* the time in milliseconds and the distance in millionths of a cell
\* between the first and the last point of a candidate
EndsDt(points) == PointTime(points[Len(points)]) - PointTime(points[1])
EndsDx(points) == points[Len(points)][2].micro - points[1][2].micro

\* the speed_kmh computed for a candidate is |dx / dt| * 3.6 between its
\* first and its last point (9 * |dx| / (2500 * dt) for dx in millionths
\* and dt in milliseconds, each position less than a millionth from its
\* nearest one), and 0 when the candidate has fewer than 2 points or
\* dt <= 0
SpeedOfEnds(speed, points) ==
    IF Len(points) >= 2 /\ EndsDt(points) > 0
    THEN /\ Abs(speed.n - 9 * Abs(EndsDx(points))) <= 10
         /\ speed.p \in 0..999999
         /\ speed.d = 2500 * EndsDt(points)
    ELSE speed.n = 0 /\ speed.p = 0 /\ speed.err = 0

\* 5 <= speed_kmh <= 120 for a float speed_kmh: by the whole part of the
\* speed and what is left of it, and on a limit by the sign of the rounding
\* error
CandidateInBand(speed) ==
    LET q    == speed.n \div speed.d
        left == speed.n % speed.d > 0 \/ speed.p > 0
    IN  /\ q > 5 \/ (q = 5 /\ (left \/ speed.err >= 0))
        /\ q < 120 \/ (q = 120 /\ ~left /\ speed.err <= 0)

\* C6: a validated candidate is in the final track set exactly when its
\* speed_kmh, computed from its first and its last point (0 when dt <= 0),
\* satisfies 5 <= speed_kmh <= 120; a candidate with dt = 0 has speed 0 and
\* is not in the final set; the speed of every final track, and of every
\* persisted track, is within [5, 120] km/h.
C6_SpeedBand ==
    Processed =>
        /\ Len(candidate_speeds) = Len(raw_tracks)
        /\ \A k \in 1..Len(raw_tracks) :
               /\ SpeedOfEnds(candidate_speeds[k], raw_tracks[k])
               /\ (\E j \in 1..Len(tracks) : tracks[j].id = k - 1)
                      <=> CandidateInBand(candidate_speeds[k])
               /\ EndsDt(raw_tracks[k]) = 0 =>
                      /\ candidate_speeds[k].n = 0
                      /\ candidate_speeds[k].p = 0
                      /\ \A j \in 1..Len(tracks) : tracks[j].id # k - 1
        /\ \A j \in 1..Len(tracks) :
               /\ tracks[j].speed_kmh = candidate_speeds[tracks[j].id + 1]
               /\ CandidateInBand(tracks[j].speed_kmh)
        /\ outdir.tracks_json.present =>
               \A j \in 1..Len(outdir.tracks_json.trace_list) :
                   CandidateInBand(outdir.tracks_json.trace_list[j].speed_kmh)

\* C6 witness: a run has persisted its result, with candidates accepted,
\* one dropped as too slow and one dropped as too fast.
C6_Witness ==
    /\ pc = "saved"
    /\ Len(tracks) >= 1
    /\ Len(outdir.tracks_json.trace_list) = Len(tracks)
    /\ \E k \in 1..Len(raw_tracks) :
           3 * Abs(EndsDx(raw_tracks[k])) > 100000 * EndsDt(raw_tracks[k])
    /\ \E k \in 1..Len(raw_tracks) :
           /\ EndsDt(raw_tracks[k]) > 0
           /\ 9 * Abs(EndsDx(raw_tracks[k])) < 12500 * EndsDt(raw_tracks[k])

\* C6 witnesses of a candidate whose speed is 120 km/h but for the rounding
\* of the float operations: one run dropped it, another kept it
C6_OnLimitDropped ==
    /\ Processed
    /\ \E k \in 1..Len(raw_tracks) :
           /\ EndsDt(raw_tracks[k]) > 0
           /\ 3 * Abs(EndsDx(raw_tracks[k])) = 100000 * EndsDt(raw_tracks[k])
           /\ candidate_speeds[k].err = 1
           /\ \A j \in 1..Len(tracks) : tracks[j].id # k - 1

C6_OnLimitKept ==
    /\ Processed
    /\ \E k \in 1..Len(raw_tracks) :
           /\ EndsDt(raw_tracks[k]) > 0
           /\ 3 * Abs(EndsDx(raw_tracks[k])) = 100000 * EndsDt(raw_tracks[k])
           /\ candidate_speeds[k].err <= 0
           /\ \E j \in 1..Len(tracks) :
                  tracks[j].id = k - 1
                  /\ tracks[j].speed_kmh = candidate_speeds[k]

\* the same on the limit 5 km/h
C6_OnMinDropped ==
    /\ Processed
    /\ \E k \in 1..Len(raw_tracks) :
           /\ EndsDt(raw_tracks[k]) > 0
           /\ 9 * Abs(EndsDx(raw_tracks[k])) = 12500 * EndsDt(raw_tracks[k])
           /\ candidate_speeds[k].err = -1
           /\ \A j \in 1..Len(tracks) : tracks[j].id # k - 1

C6_OnMinKept ==
    /\ Processed
    /\ \E k \in 1..Len(raw_tracks) :
           /\ EndsDt(raw_tracks[k]) > 0
           /\ 9 * Abs(EndsDx(raw_tracks[k])) = 12500 * EndsDt(raw_tracks[k])
           /\ candidate_speeds[k].err >= 0
           /\ \E j \in 1..Len(tracks) :
                  tracks[j].id = k - 1
                  /\ tracks[j].speed_kmh = candidate_speeds[k]

\* C6 witness of the case dt = 0: all timestamps are equal, and the run
\* ended with the candidates it had all dropped.
C6_ZeroDtDropped ==
    /\ pc = "done" /\ result.success
    /\ Len(raw_tracks) > 0
    /\ \A k \in 1..Len(raw_tracks) : EndsDt(raw_tracks[k]) = 0
    /\ tracks = <<>>

\* the points of a final track are those of candidate cand, with the
\* timestamps of their time indices
TrackOf(track, cand) ==
    /\ Len(track.points) = Len(cand)
    /\ \A i \in 1..Len(cand) :
           /\ track.points[i].position = cand[i][2]
           /\ track.points[i].time = PointTime(cand[i])

\* the place among the lines of the search of the line of candidate k
PeakOf(k) == CHOOSE j \in 1..Len(hough.peaks) : raw_tracks[k] = Trace(j)

\* C7 (as claimed): the id of a final track is the place, counted from 0,
\* of its line among the lines the line-detection search found, lines
\* rejected later counted too.
C7_IdIsSearchOrder ==
    (Processed /\ ~hough.raised) =>
        \A j \in 1..Len(tracks) :
            /\ tracks[j].id \in 0..(Len(hough.peaks) - 1)
            /\ TrackOf(tracks[j], Trace(tracks[j].id + 1))

\* C7 (amended): the id of a final track is the place, counted from 0, of
\* its candidate in the list the line detector returned, candidates that
\* the speed filter rejected later counted too; the candidates of that
\* list are in the order in which the search found their lines; so the ids
\* of the final list are pairwise distinct and strictly increasing.
C7_IdIsCandidateOrder ==
    Processed =>
        /\ \A j \in 1..Len(tracks) :
               /\ tracks[j].id \in 0..(Len(raw_tracks) - 1)
               /\ TrackOf(tracks[j], raw_tracks[tracks[j].id + 1])
        /\ \A i, j \in 1..Len(tracks) : i < j => tracks[i].id < tracks[j].id
        /\ \A k \in 1..Len(raw_tracks) :
               \E j \in 1..Len(hough.peaks) : raw_tracks[k] = Trace(j)
        /\ \A k \in 1..(Len(raw_tracks) - 1) : PeakOf(k) < PeakOf(k + 1)

\* C7 witness: the ids of the final list are not contiguous, a candidate
\* between two accepted ones having been rejected for its speed, and a
\* final track has an id other than the place of its line in the search,
\* the detector having dropped a line the search found before it.
C7_Witness ==
    /\ Processed
    /\ \E i \in 1..Len(tracks) :
           /\ i < Len(tracks)
           /\ tracks[i + 1].id > tracks[i].id + 1
    /\ \E j \in 1..Len(tracks), p \in 1..Len(hough.peaks) :
           /\ TrackOf(tracks[j], Trace(p))
           /\ p > tracks[j].id + 1
           /\ \E q \in 1..(p - 1) :
                  \A k \in 1..Len(raw_tracks) : raw_tracks[k] # Trace(q)

\* C8: the statistics of an empty track set are the fixed zero record, and a
\* run whose final track set is empty returns success with tracks_count 0.
C8_EmptyTrackSet ==
    LET zero == [total_vehicles |-> 0, avg_speed_kmh |-> 0,
                 congestion_vehicles |-> 0, congestion_percent |-> 0,
                 peak_hour |-> "00:00-01:00", traffic_intensity |-> 0,
                 vehicle_types |-> [light |-> 0, heavy |-> 0],
                 processing_time |-> 0]
    IN  /\ (Aggregated /\ tracks = <<>>) => stats_result = zero
        /\ (pc = "done" /\ stats_result # NoStats /\ tracks = <<>>) =>
               /\ result.success
               /\ result.tracks_count = 0
               /\ result.statistics = zero
        /\ RunFailed => stats_result = NoStats

\* C8 witness: a run over a recording with candidates, none of which was
\* accepted, has returned.
C8_Witness ==
    /\ pc = "done"
    /\ result.success
    /\ result.tracks_count = 0
    /\ Len(raw_tracks) > 0
    /\ outdir.report_txt.present

---------------------------------------------------------------------------
(* The classifier alone: smart_classify_vehicle on a field and a track     *)

\* a field of MaxTrackLen rows and 2 columns of value base, with the row
\* spike_row of value spike
ClassifyField(base, spike, spike_row) ==
    [t \in 1..MaxTrackLen |->
        [x \in 1..2 |-> IF t - 1 = spike_row THEN spike ELSE base]]

ClassifyFields ==
    { ClassifyField(0, 0, 0),   ClassifyField(10, 10, 0),
      ClassifyField(25, 25, 0), ClassifyField(26, 26, 0),
      ClassifyField(24, 34, 0),
      ClassifyField(0, 250, 0), ClassifyField(0, 251, 0),
      ClassifyField(0, 251, 1), ClassifyField(-10, -10, 0) }

\* tracks of n points, one per time step: inside the field (x = 0.5),
\* beyond its last column (2.0), just left of its first column (-0.5), and
\* leaving it on the way (a tenth of a cell further per step)
ClassifyTrack(n, kind) ==
    [i \in 1..n |->
        CASE kind = "inside"  -> <<i - 1, Position(500000)>>
          [] kind = "outside" -> <<i - 1, Position(2000000)>>
          [] kind = "left"    -> <<i - 1, Position(-500000)>>
          [] kind = "leaving" -> <<i - 1, Position((i - 1) * 100000)>>]

ClassifyTracks ==
    {ClassifyTrack(n, kind) :
        n \in 0..MaxTrackLen, kind \in {"inside", "outside", "left", "leaving"}}

InitClassify ==
    /\ pc = "classify"
    /\ data_2d \in ClassifyFields
    /\ track_points \in ClassifyTracks
    /\ h5file = NoRecording
    /\ stats = <<>>
    /\ timestamps = NoTimestamps
    /\ binary = <<>>
    /\ hough = NoHough
    /\ raw_tracks = <<>>
    /\ candidate_speeds = <<>>
    /\ tracks = <<>>
    /\ stats_result = NoStats
    /\ outdir = EmptyDir
    /\ result = NoResult
    /\ amplitudes = <<>>
    /\ classified = NoClass
    /\ utc_offset = 0
    /\ loaded = NoLoad
    /\ sessions = NoSessions
    /\ requests = <<>>
    /\ tasks = <<>>

\* smart_classify_vehicle(signal_2d, track_points)
Classify ==
    /\ pc = "classify"
    /\ amplitudes' = IF track_points = <<>> THEN <<>>
                     ELSE SampleAmplitudes(data_2d, track_points)
    /\ \E err \in MeanErrors(amplitudes') :
           classified' = SmartClassifyVehicle(data_2d, track_points, err)
    /\ pc' = "classified"
    /\ UNCHANGED <<h5file, stats, timestamps, data_2d, binary, hough,
                   raw_tracks, candidate_speeds, tracks, stats_result, outdir,
                   result, track_points, utc_offset>>
    /\ UNCHANGED <<loaded, web>>

NextClassify == Classify

SpecClassify == InitClassify /\ [][NextClassify]_vars

\* C4 (as claimed): the classifier samples at most 20 points of the track.
C4_AtMost20Samples ==
    pc = "classified" => Len(amplitudes) <= 20

\* C5: the result is heavy exactly when the mean of the sampled amplitudes,
\* as the program computes it in float32, is above 2.5 or their maximum is
\* above 25, and light otherwise; the computed mean differs from the mean of
\* the amplitudes only by its rounding error, which decides only where that
\* mean is 2.5 itself; a track without points or without a sample inside
\* the field is (light, 0).
C5_DecisionRule ==
    pc = "classified" =>
        /\ classified.vehicle_type \in {"light", "heavy"}
        /\ (track_points = <<>> \/ amplitudes = <<>>) =>
               /\ classified.vehicle_type = "light"
               /\ classified.avg_amp = 0
               /\ classified.avg_amp_err = 0
        /\ amplitudes # <<>> =>
               /\ classified.avg_amp =
                      (100 * SumSeq(amplitudes)) \div Len(amplitudes)
               /\ classified.avg_amp_err # 0 =>
                      /\ SumSeq(amplitudes) = 25 * Len(amplitudes)
                      /\ \E k \in 1..Len(amplitudes) : amplitudes[k] % 5 # 0
               /\ classified.vehicle_type = "heavy" <=>
                      \/ SumSeq(amplitudes) > 25 * Len(amplitudes)
                      \/ /\ SumSeq(amplitudes) = 25 * Len(amplitudes)
                         /\ classified.avg_amp_err = 1
                      \/ \E k \in 1..Len(amplitudes) : amplitudes[k] > 250

\* C5 witness: a track is heavy by its maximum alone, its mean being at
\* most 2.5.
C5_Witness ==
    /\ pc = "classified"
    /\ classified.vehicle_type = "heavy"
    /\ Len(amplitudes) > 10
    /\ SumSeq(amplitudes) <= 25 * Len(amplitudes)

\* C5 witnesses of amplitudes whose mean is 2.5 but for the rounding of the
\* float32 operations: the computed mean is above 2.5 and the track heavy,
\* or it is not and the track is light
C5_OnLimitHeavy ==
    /\ pc = "classified"
    /\ SumSeq(amplitudes) = 25 * Len(amplitudes)
    /\ classified.avg_amp_err = 1
    /\ classified.vehicle_type = "heavy"

C5_OnLimitLight ==
    /\ pc = "classified"
    /\ amplitudes # <<>>
    /\ SumSeq(amplitudes) = 25 * Len(amplitudes)
    /\ \E k \in 1..Len(amplitudes) : amplitudes[k] % 5 # 0
    /\ classified.vehicle_type = "light"

\* the same for amplitudes that are all 2.5, a float32 number: the computed
\* mean is 2.5 and the track light
C5_OnLimitExact ==
    /\ pc = "classified"
    /\ Len(amplitudes) > 1
    /\ \A k \in 1..Len(amplitudes) : amplitudes[k] = 25
    /\ classified.avg_amp_err = 0
    /\ classified.vehicle_type = "light"

---------------------------------------------------------------------------
(* The aggregator alone: create_fast_statistics on a track set             *)

StartTimes == {0, 1800000, 5400000, 8000000, 14400000, 84600000}

\* a speed of a number of thousandths, with the rounding error err
Speed(milli, err) == [n |-> milli, p |-> 0, d |-> 1000, err |-> err]

\* 5.0, 25.0 and the float below 25 (24.99999999999998)
TrackKinds ==
    { [vehicle_type |-> "light", speed_kmh |-> Speed(5000, 0)],
      [vehicle_type |-> "light", speed_kmh |-> Speed(25000, 0)],
      [vehicle_type |-> "heavy", speed_kmh |-> Speed(25000, -1)] }

InitStats ==
    /\ pc = "aggregate"
    /\ \E n \in 0..MaxTracks :
        \E starts \in [1..n -> StartTimes], kinds \in [1..n -> TrackKinds] :
            tracks = [k \in 1..n |->
                         [id |-> k - 1,
                          points |-> <<[time |-> starts[k],
                                        position |-> Position(0)]>>,
                          vehicle_type |-> kinds[k].vehicle_type,
                          avg_amp |-> 0,
                          speed_kmh |-> kinds[k].speed_kmh]]
    /\ utc_offset \in {0, 10800}
    /\ timestamps = FlatTimestamps(NT, 620)
    /\ h5file = NoRecording
    /\ stats = <<>>
    /\ data_2d = <<>>
    /\ binary = <<>>
    /\ hough = NoHough
    /\ raw_tracks = <<>>
    /\ candidate_speeds = <<>>
    /\ stats_result = NoStats
    /\ outdir = EmptyDir
    /\ result = NoResult
    /\ track_points = <<>>
    /\ amplitudes = <<>>
    /\ classified = NoClass
    /\ loaded = NoLoad
    /\ sessions = NoSessions
    /\ requests = <<>>
    /\ tasks = <<>>

\* create_fast_statistics(tracks, timestamps)
Aggregate ==
    /\ pc = "aggregate"
    /\ \E e \in ElapsedTimes :
        stats_result' \in
            CreateFastStatistics(tracks, timestamps.data, utc_offset, e)
    /\ pc' = "stats_done"
    /\ UNCHANGED <<h5file, stats, timestamps, data_2d, binary, hough,
                   raw_tracks, candidate_speeds, tracks, outdir, result,
                   track_points, amplitudes, classified, utc_offset>>
    /\ UNCHANGED <<loaded, web>>

NextStats == Aggregate

SpecStats == InitStats /\ [][NextStats]_vars

\* the start time of a track, and the time between the earliest and the
\* latest start, in milliseconds
StartOf(k) == tracks[k].points[1].time

StartSpan ==
    LET first == CHOOSE k \in 1..Len(tracks) :
                     \A j \in 1..Len(tracks) : StartOf(k) <= StartOf(j)
        last  == CHOOSE k \in 1..Len(tracks) :
                     \A j \in 1..Len(tracks) : StartOf(k) >= StartOf(j)
    IN  StartOf(last) - StartOf(first)

\* speed_kmh < 25 for the float speed_kmh of a track: its fraction is below
\* 25, or is 25 and the float lies below it
Below25(speed) ==
    \/ speed.n < 25 * speed.d
    \/ (speed.n = 25 * speed.d /\ speed.err = -1)

\* the counts of a non-empty track set agree with each other
CountsConsistent ==
    /\ stats_result.total_vehicles = Len(tracks)
    /\ stats_result.vehicle_types.light + stats_result.vehicle_types.heavy
           = stats_result.total_vehicles
    /\ stats_result.congestion_vehicles =
           Cardinality({k \in 1..Len(tracks) : Below25(tracks[k].speed_kmh)})
    /\ stats_result.congestion_vehicles <= stats_result.total_vehicles

\* C9 (as claimed): the counts agree, and traffic_intensity is total_vehicles
\* divided by the hours between the earliest and the latest start, and 0
\* when that duration is not positive.  traffic_intensity is in tenths and
\* the span in milliseconds: x = n / (span / 3600000) is x * span = 36000000 n.
C9_IntensityIsQuotient ==
    (pc = "stats_done" /\ tracks # <<>>) =>
        /\ CountsConsistent
        /\ StartSpan <= 0 => stats_result.traffic_intensity = 0
        /\ StartSpan > 0 =>
               stats_result.traffic_intensity * StartSpan
                   = 36000000 * Len(tracks)

\* C9 (amended): the counts agree, and traffic_intensity is total_vehicles
\* divided by the hours between the earliest and the latest start, rounded
\* to one decimal place (at most 0.05 away from the quotient), and 0 when
\* that duration is not positive.
C9_IntensityIsRoundedQuotient ==
    (pc = "stats_done" /\ tracks # <<>>) =>
        /\ CountsConsistent
        /\ StartSpan <= 0 => stats_result.traffic_intensity = 0
        /\ StartSpan > 0 =>
               /\ stats_result.traffic_intensity \in 0..(10 * 3600000 * Len(tracks))
               /\ 2 * Abs(stats_result.traffic_intensity * (StartSpan \div 1000)
                              - 36000 * Len(tracks))
                      <= StartSpan \div 1000

\* C9 witness: three tracks, two below the congestion threshold (one of
\* them by the rounding error of its speed alone) and one exactly at it,
\* two light and one heavy, starting 23.5 hours apart: the quotient
\* 3 / 23.5 = 0.1277 is reported as 0.1.
C9_Witness ==
    /\ pc = "stats_done"
    /\ Len(tracks) = 3
    /\ stats_result.congestion_vehicles = 2
    /\ stats_result.vehicle_types = [light |-> 2, heavy |-> 1]
    /\ \E k \in 1..3 : tracks[k].speed_kmh = Speed(25000, 0)
    /\ StartSpan = 84600000
    /\ stats_result.traffic_intensity = 1

\* three tracks starting 8000 s apart: the quotient 3 / (8000 / 3600) is
\* 1.35, midway between two tenths, and the float the program computes for
\* it lies beside it: one run reports 1.3, another 1.4
C9_WitnessTieDown ==
    /\ pc = "stats_done"
    /\ Len(tracks) = 3
    /\ StartSpan = 8000000
    /\ stats_result.traffic_intensity = 13

C9_WitnessTieUp ==
    /\ pc = "stats_done"
    /\ Len(tracks) = 3
    /\ StartSpan = 8000000
    /\ stats_result.traffic_intensity = 14

\* three tracks starting 4 hours apart: the quotient 0.75 is computed
\* without rounding error and reported as 0.8
C9_WitnessTieExact ==
    /\ pc = "stats_done"
    /\ Len(tracks) = 3
    /\ StartSpan = 14400000
    /\ stats_result.traffic_intensity = 8

\* a single track whose speed is the float below 25: it is counted as
\* congestion; one whose speed is 25.0 is not
C9_WitnessBelowThreshold ==
    /\ pc = "stats_done"
    /\ Len(tracks) = 1
    /\ tracks[1].speed_kmh = Speed(25000, -1)
    /\ stats_result.congestion_vehicles = 1
    /\ stats_result.congestion_percent = 1000

C9_WitnessOnThreshold ==
    /\ pc = "stats_done"
    /\ Len(tracks) = 1
    /\ tracks[1].speed_kmh = Speed(25000, 0)
    /\ stats_result.congestion_vehicles = 0

\* a single track: the duration is 0 and so is traffic_intensity
C9_WitnessSingle ==
    /\ pc = "stats_done"
    /\ Len(tracks) = 1
    /\ stats_result.traffic_intensity = 0

\* the hour of the day a track starts in, and the number of tracks starting
\* in an hour
StartHour(k) == (((StartOf(k) \div 1000) + utc_offset) \div 3600) % 24
StartsIn(h) == Cardinality({k \in 1..Len(tracks) : StartHour(k) = h})

HourRanges ==
    << "00:00-01:00", "01:00-02:00", "02:00-03:00", "03:00-04:00",
       "04:00-05:00", "05:00-06:00", "06:00-07:00", "07:00-08:00",
       "08:00-09:00", "09:00-10:00", "10:00-11:00", "11:00-12:00",
       "12:00-13:00", "13:00-14:00", "14:00-15:00", "15:00-16:00",
       "16:00-17:00", "17:00-18:00", "18:00-19:00", "19:00-20:00",
       "20:00-21:00", "21:00-22:00", "22:00-23:00", "23:00-24:00" >>

\* C10: peak_hour is the one-hour range of the hour of the day in which the
\* most tracks start; of several such hours it is the one whose first track
\* comes first in the track list.
C10_PeakHour ==
    (pc = "stats_done" /\ tracks # <<>>) =>
        \E k \in 1..Len(tracks) :
            /\ \A j \in 1..Len(tracks) : StartsIn(StartHour(j)) <= StartsIn(StartHour(k))
            /\ \A j \in 1..(k - 1) : StartsIn(StartHour(j)) < StartsIn(StartHour(k))
            /\ stats_result.peak_hour = HourRanges[StartHour(k) + 1]

\* C10 witness: two hours are equally frequent and the one reported, that of
\* the first track, is the later one, 23:00-24:00.
C10_Witness ==
    /\ pc = "stats_done"
    /\ Len(tracks) = 3
    /\ StartHour(1) = 23
    /\ StartHour(2) = 0
    /\ StartHour(3) = 1
    /\ stats_result.peak_hour = "23:00-24:00"

---------------------------------------------------------------------------
(* tracks.json as text: json.dump and json.load                            *)
(* The text is a sequence of JSON tokens [k, s, n]: punctuation ("p"), a   *)
(* string ("s") or a number ("n").                                         *)

P(c) == [k |-> "p", s |-> c, n |-> 0]
S(str) == [k |-> "s", s |-> str, n |-> 0]
N(num) == [k |-> "n", s |-> "", n |-> num]

RECURSIVE Flatten(_)
Flatten(seqs) ==
    IF seqs = <<>> THEN <<>> ELSE Head(seqs) \o Flatten(Tail(seqs))

\* a JSON array of items already serialised, separated by commas
DumpList(items) ==
    <<P("[")>>
        \o Flatten([i \in 1..Len(items) |->
                       IF i = 1 THEN items[i] ELSE <<P(",")>> \o items[i]])
        \o <<P("]")>>

\* a JSON object of members <<key, serialised value>>, in insertion order
DumpDict(members) ==
    <<P("{")>>
        \o Flatten([i \in 1..Len(members) |->
                       (IF i = 1 THEN <<>> ELSE <<P(",")>>)
                           \o <<S(members[i][1]), P(":")>> \o members[i][2]])
        \o <<P("}")>>

\* a float is written as the shortest decimal text that reads back as the
\* same float, so the token of a number carries the number itself
DumpPoint(pt) ==
    DumpDict(<< <<"time", <<N(pt.time)>> >>,
                <<"position", <<N(pt.position)>> >> >>)

DumpTrack(tr) ==
    DumpDict(<< <<"id", <<N(tr.id)>> >>,
                <<"points",
                  DumpList([i \in 1..Len(tr.points) |-> DumpPoint(tr.points[i])])>>,
                <<"vehicle_type", <<S(tr.vehicle_type)>> >>,
                <<"avg_amp", <<N(tr.avg_amp)>> >>,
                <<"speed_kmh", <<N(tr.speed_kmh)>> >> >>)

DumpStats(st) ==
    DumpDict(<< <<"total_vehicles", <<N(st.total_vehicles)>> >>,
                <<"avg_speed_kmh", <<N(st.avg_speed_kmh)>> >>,
                <<"congestion_vehicles", <<N(st.congestion_vehicles)>> >>,
                <<"congestion_percent", <<N(st.congestion_percent)>> >>,
                <<"peak_hour", <<S(st.peak_hour)>> >>,
                <<"traffic_intensity", <<N(st.traffic_intensity)>> >>,
                <<"vehicle_types",
                  DumpDict(<< <<"light", <<N(st.vehicle_types.light)>> >>,
                              <<"heavy", <<N(st.vehicle_types.heavy)>> >> >>)>>,
                <<"processing_time", <<N(st.processing_time)>> >> >>)

\* json.dump(result, f): the text of tracks.json; now is analysis_time
JsonDump(doc, now) ==
    DumpDict(<< <<"trace_list",
                  DumpList([i \in 1..Len(doc.trace_list) |->
                               DumpTrack(doc.trace_list[i])])>>,
                <<"statistics", DumpStats(doc.statistics)>>,
                <<"metadata",
                  DumpDict(<< <<"analysis_time", <<S(now)>> >>,
                              <<"algorithm", <<S(doc.metadata.algorithm)>> >> >>)>> >>)

\* json.load: a value is a number, a string, an array (a sequence) or an
\* object (a function of its keys; a repeated key keeps its last value).
\* The result is [ok, value, next]: next is the first token not consumed.
ParseError == [ok |-> FALSE, value |-> 0, next |-> 0]

IsP(toks, i, c) == i <= Len(toks) /\ toks[i].k = "p" /\ toks[i].s = c

DictOf(members) ==
    [key \in {members[j][1] : j \in 1..Len(members)} |->
        LET last == CHOOSE j \in 1..Len(members) :
                        /\ members[j][1] = key
                        /\ \A m \in (j + 1)..Len(members) : members[m][1] # key
        IN  members[last][2]]

RECURSIVE ParseValue(_, _), ParseItems(_, _, _), ParseMembers(_, _, _)
ParseValue(toks, i) ==
    IF i > Len(toks) THEN ParseError
    ELSE IF toks[i].k = "n" THEN [ok |-> TRUE, value |-> toks[i].n, next |-> i + 1]
    ELSE IF toks[i].k = "s" THEN [ok |-> TRUE, value |-> toks[i].s, next |-> i + 1]
    ELSE IF IsP(toks, i, "[")
         THEN IF IsP(toks, i + 1, "]")
              THEN [ok |-> TRUE, value |-> <<>>, next |-> i + 2]
              ELSE ParseItems(toks, i + 1, <<>>)
    ELSE IF IsP(toks, i, "{")
         THEN IF IsP(toks, i + 1, "}")
              THEN [ok |-> TRUE, value |-> <<>>, next |-> i + 2]
              ELSE ParseMembers(toks, i + 1, <<>>)
    ELSE ParseError

ParseItems(toks, i, acc) ==
    LET item == ParseValue(toks, i)
    IN  IF ~item.ok THEN ParseError
        ELSE IF IsP(toks, item.next, ",")
             THEN ParseItems(toks, item.next + 1, Append(acc, item.value))
        ELSE IF IsP(toks, item.next, "]")
             THEN [ok |-> TRUE, value |-> Append(acc, item.value),
                   next |-> item.next + 1]
        ELSE ParseError

ParseMembers(toks, i, acc) ==
    IF ~(i + 1 <= Len(toks) /\ toks[i].k = "s" /\ IsP(toks, i + 1, ":"))
    THEN ParseError
    ELSE LET member == ParseValue(toks, i + 2)
             all    == Append(acc, <<toks[i].s, member.value>>)
         IN  IF ~member.ok THEN ParseError
             ELSE IF IsP(toks, member.next, ",")
                  THEN ParseMembers(toks, member.next + 1, all)
             ELSE IF IsP(toks, member.next, "}")
                  THEN [ok |-> TRUE, value |-> DictOf(all),
                        next |-> member.next + 1]
             ELSE ParseError

\* json.load(f): the whole text must be one value
JsonLoad(toks) ==
    LET parsed == ParseValue(toks, 1)
    IN  IF parsed.ok /\ parsed.next = Len(toks) + 1 THEN parsed ELSE ParseError

---------------------------------------------------------------------------
(* Persist and load back: a run that saves its result with                 *)
(* save_results_fast, and load_tracks_and_get_time_range on the same       *)
(* output location at any moment before, during or after the save.  Here   *)
(* the file tracks.json is kept as its text, [present, text].  json.dump   *)
(* writes through the buffer of the file object, so the text reaches the   *)
(* file in pieces, and a reader between two pieces sees the text so far.   *)

BufferTokens == 150   \* tokens the buffer of the file object holds

\* what the except clause of load_tracks_and_get_time_range returns, and
\* what an empty trace_list gives: [], 0, 1 (seconds)
NoTracksLoaded ==
    [returned |-> TRUE, tracks |-> <<>>, start_time |-> 0, end_time |-> 1000]

\* Variant: only the time of the first point of each track, as the
\* start_times of create_fast_statistics.
AllTimesFirstPoints(trks) ==
    Flatten([k \in 1..Len(trks) |->
                IF trks[k].points = <<>> THEN <<>>
                ELSE <<trks[k].points[1].time>>])

\* all_times = [pt["time"] for track in tracks for pt in track["points"]]
AllTimes(trks) ==
    Flatten([k \in 1..Len(trks) |->
                [i \in 1..Len(trks[k].points) |-> trks[k].points[i].time]])

LoadTracksAndGetTimeRange(file) ==
    IF ~file.present THEN NoTracksLoaded              \* open() raises
    ELSE LET parsed == JsonLoad(file.text)
         IN  IF ~parsed.ok THEN NoTracksLoaded        \* json.load raises
             ELSE IF "trace_list" \notin DOMAIN parsed.value
                  THEN NoTracksLoaded                 \* data["trace_list"] raises
             ELSE LET trks == parsed.value.trace_list
                  IN  IF trks = <<>> THEN NoTracksLoaded
                      ELSE IF AllTimes(trks) = <<>>
                           THEN NoTracksLoaded        \* min([]) raises
                      ELSE [returned |-> TRUE, tracks |-> trks,
                            start_time |-> MinSeq(AllTimes(trks)),
                            end_time |-> MaxSeq(AllTimes(trks))]

\* the text an earlier run left: one track, which no run of these
\* recordings produces
EarlierText ==
    JsonDump(TracksJson(<<[id |-> 7,
                           points |-> [i \in 1..MIN_TRACK_LENGTH |->
                                          [time |-> 700 + i,
                                           position |-> Position(0)]],
                           vehicle_type |-> "heavy", avg_amp |-> 30,
                           speed_kmh |-> [n |-> 50000, p |-> 0,
                                          d |-> 1000, err |-> 0]]>>,
                         EmptyStats), "earlier")

\* the same text, cut short
CutShortText == SubSeq(EarlierText, 1, 20)

\* the output location before the run: empty, holding an earlier result,
\* holding a tracks.json cut short, or one that is an empty object
OutputLocations ==
    {EmptyDir} \cup
    {[EmptyDir EXCEPT !.tracks_json = [present |-> TRUE, text |-> txt],
                      !.report_txt = ReportTxt(EmptyStats)] :
        txt \in {EarlierText, CutShortText, <<P("{"), P("}")>>}}

RoundTripRecordings ==
    {NoRecording} \cup
    {Recording(sc, ts) :
        sc \in Scenes,
        ts \in {FlatTimestamps(NT, 620), FlatTimestamps(NT, 30),
                SplitTimestamps(NT, 620, 2)}}

InitRoundTrip ==
    /\ pc = "start"
    /\ h5file \in RoundTripRecordings
    /\ outdir \in OutputLocations
    /\ loaded = NoLoad
    /\ stats = <<>>
    /\ timestamps = NoTimestamps
    /\ data_2d = <<>>
    /\ binary = <<>>
    /\ hough = NoHough
    /\ raw_tracks = <<>>
    /\ candidate_speeds = <<>>
    /\ tracks = <<>>
    /\ stats_result = NoStats
    /\ result = NoResult
    /\ track_points = <<>>
    /\ amplitudes = <<>>
    /\ classified = NoClass
    /\ utc_offset = 0
    /\ sessions = NoSessions
    /\ requests = <<>>
    /\ tasks = <<>>

\* save_results_fast: open(tracks.json, "w") truncates the file
OpenTracksJson ==
    /\ pc = "aggregated"
    /\ outdir' = [outdir EXCEPT !.tracks_json = [present |-> TRUE, text |-> <<>>]]
    /\ pc' = "json_open"
    /\ UNCHANGED <<h5file, stats, timestamps, data_2d, binary, hough,
                   raw_tracks, candidate_speeds, tracks, stats_result, result,
                   track_points, amplitudes, classified, utc_offset, loaded,
                   web>>

\* save_results_fast: json.dump(result, f) and the close of the file; the
\* next piece of the text reaches the file
WriteTracksJson ==
    /\ pc = "json_open"
    /\ LET full == JsonDump(TracksJson(tracks, stats_result), "now")
           upto == Min2(Len(outdir.tracks_json.text) + BufferTokens, Len(full))
       IN  /\ outdir' = [outdir EXCEPT !.tracks_json.text = SubSeq(full, 1, upto)]
           /\ pc' = IF upto = Len(full) THEN "json_saved" ELSE "json_open"
    /\ UNCHANGED <<h5file, stats, timestamps, data_2d, binary, hough,
                   raw_tracks, candidate_speeds, tracks, stats_result, result,
                   track_points, amplitudes, classified, utc_offset, loaded,
                   web>>

\* load_tracks_and_get_time_range(), at any moment
LoadTracks ==
    /\ loaded' = LoadTracksAndGetTimeRange(outdir.tracks_json)
    /\ UNCHANGED <<pc, h5file, stats, timestamps, data_2d, binary, hough,
                   raw_tracks, candidate_speeds, tracks, stats_result, outdir,
                   result, track_points, amplitudes, classified, utc_offset,
                   web>>

NextRoundTrip ==
    \/ LoadCombinedData
    \/ Preprocess
    \/ Detect
    \/ ProcessTracks
    \/ Statistics
    \/ OpenTracksJson
    \/ WriteTracksJson
    \/ SaveReport
    \/ Finish
    \/ LoadTracks

SpecRoundTrip == InitRoundTrip /\ [][NextRoundTrip]_vars

\* the run has saved its track list and nothing has replaced it
SavedByRun ==
    \/ pc \in {"json_saved", "saved"}
    \/ (pc = "done" /\ result.success)

\* tracks.json is missing, is being written, or was cut short
Unreadable ==
    \/ ~outdir.tracks_json.present
    \/ pc = "json_open"
    \/ outdir.tracks_json.text = CutShortText

\* the times of all points of the track list of the run
TrackTimes ==
    UNION {{tracks[k].points[i].time : i \in 1..Len(tracks[k].points)} :
           k \in 1..Len(tracks)}

\* C11: once the run has saved its track list, a load from the same
\* location returns as many tracks as the run saved, each with as many
\* points as it had, with the earliest and the latest time of all points;
\* it returns ([], 0, 1) when the saved list is empty, and a load from an
\* unreadable artifact returns ([], 0, 1) too.
C11_RoundTrip ==
    [][LoadTracks =>
          /\ SavedByRun =>
                 /\ Len(loaded'.tracks) = Len(tracks)
                 /\ \A k \in 1..Len(tracks) :
                        Len(loaded'.tracks[k].points) = Len(tracks[k].points)
                 /\ tracks = <<>> => loaded' = NoTracksLoaded
                 /\ tracks # <<>> =>
                        /\ \A t \in TrackTimes : loaded'.start_time <= t
                        /\ \A t \in TrackTimes : loaded'.end_time >= t
                        /\ loaded'.start_time \in TrackTimes
                        /\ loaded'.end_time \in TrackTimes
          /\ Unreadable => loaded' = NoTracksLoaded]_vars

\* C11 witness: the run has saved two tracks or more, none starting at the
\* latest time, and the load has returned them with their time range.
C11_Witness ==
    /\ pc = "done"
    /\ result.returned /\ result.success
    /\ Len(tracks) >= 2
    /\ loaded.returned
    /\ Len(loaded.tracks) = Len(tracks)
    /\ \A k \in 1..Len(tracks) :
           /\ Len(tracks[k].points) >= MIN_TRACK_LENGTH
           /\ Len(loaded.tracks[k].points) = Len(tracks[k].points)
           /\ tracks[k].points[1].time < loaded.end_time
    /\ loaded.start_time < loaded.end_time

---------------------------------------------------------------------------
(* The web layer of app.py: sessions, POST /run-analysis and the           *)
(* run_analysis_task threads, all writing to the one OUTPUT_DIR.           *)
(* A session is [state, running, done, error]; state is "none" before      *)
(* index() creates it, "live" while it is in sessions and "expired" once   *)
(* cleanup_sessions has deleted it (the dict itself lives on, unchanged,   *)
(* for a handler that fetched it before).  error "None" is None.           *)
(* A file is [present, text], the text a sequence of pieces.  The          *)
(* recording is the same for every run, so the track list at the head of   *)
(* tracks.json, report.txt and infographic.png are the same for every      *)
(* run (piece 0); the rest of tracks.json holds processing_time and        *)
(* analysis_time, which differ from run to run in value and in length:     *)
(* pieces with the number of the run.  Every thread writes through its     *)
(* own file object, at its own offset; a write past the end of a file      *)
(* another thread has truncated leaves a gap (piece -1).  GET /status      *)
(* only refreshes last_active and is not an action.                        *)

MaxRequests == 2   \* POST /run-analysis requests
MaxChunks == 2     \* pieces of the run's own part of a tracks.json

SessionIds == {"s1", "s2"}
RequestIds == 1..MaxRequests

engine == <<pc, stats, timestamps, data_2d, binary, hough, raw_tracks,
            candidate_speeds, tracks,
            stats_result, result, track_points, amplitudes, classified,
            utc_offset, loaded>>

NoSession == [state |-> "none", running |-> FALSE, done |-> FALSE, error |-> "None"]

\* create_session(session_id)
NewSession == [state |-> "live", running |-> FALSE, done |-> FALSE, error |-> "None"]

\* update_session(session_id, updates) with updates = {"running": True}
UpdateRunning(ss, sid) ==
    IF ss[sid].state = "live"
    THEN [ss EXCEPT ![sid].running = TRUE]
    ELSE ss

\* update_session(session_id, updates) with the three fields a task sets
UpdateSession(ss, sid, running, done, error) ==
    IF ss[sid].state = "live"
    THEN [ss EXCEPT ![sid].running = running, ![sid].done = done,
                    ![sid].error = error]
    ELSE ss

\* what a write of one piece at an offset leaves in a file that holds old
WriteAt(old, offset, piece) ==
    [i \in 1..Max2(Len(old), offset + 1) |->
        IF i = offset + 1 THEN piece
        ELSE IF i <= Len(old) THEN old[i] ELSE -1]

\* the text of the tracks.json of run r, its own part n pieces long
RunText(r, n) == <<0>> \o [i \in 1..n |-> r]

\* the text of report.txt and of infographic.png
ReportText == <<0>>

NoTask == [pc |-> "idle", success |-> FALSE, size |-> 0, written |-> 0]

InitWeb ==
    /\ sessions = [sid \in SessionIds |-> NoSession]
    /\ requests = [r \in RequestIds |-> [pc |-> "new", sid |-> "s1", response |-> "none"]]
    /\ tasks = [r \in RequestIds |-> NoTask]
    /\ h5file \in {NoRecording, [NoRecording EXCEPT !.exists = TRUE]}
    /\ outdir = EmptyDir
    /\ pc = "serving"
    /\ stats = <<>>
    /\ timestamps = NoTimestamps
    /\ data_2d = <<>>
    /\ binary = <<>>
    /\ hough = NoHough
    /\ raw_tracks = <<>>
    /\ candidate_speeds = <<>>
    /\ tracks = <<>>
    /\ stats_result = NoStats
    /\ result = NoResult
    /\ track_points = <<>>
    /\ amplitudes = <<>>
    /\ classified = NoClass
    /\ utc_offset = 0
    /\ loaded = NoLoad

\* GET /: index() creates a session under a fresh id
Index(sid) ==
    /\ sessions[sid].state = "none"
    /\ sessions' = [sessions EXCEPT ![sid] = NewSession]
    /\ UNCHANGED <<engine, h5file, outdir, requests, tasks>>

\* cleanup_sessions deletes a session that was inactive for 30 minutes
CleanupSession(sid) ==
    /\ sessions[sid].state = "live"
    /\ sessions' = [sessions EXCEPT ![sid].state = "expired"]
    /\ UNCHANGED <<engine, h5file, outdir, requests, tasks>>

\* run_analysis, lines 65-68: session = get_session(session_id)
RunAnalysisGetSession(r, sid) ==
    /\ requests[r].pc = "new"
    /\ \A q \in 1..(r - 1) : requests[q].pc # "new"
    /\ requests' = [requests EXCEPT ![r] =
                       IF sessions[sid].state = "live"
                       THEN [pc |-> "got_session", sid |-> sid, response |-> "none"]
                       ELSE [pc |-> "responded", sid |-> sid,
                             response |-> "session not found"]]
    /\ UNCHANGED <<engine, h5file, outdir, sessions, tasks>>

\* run_analysis, lines 70-71: if session["running"]
RunAnalysisCheckRunning(r) ==
    /\ requests[r].pc = "got_session"
    /\ requests' = [requests EXCEPT ![r] =
                       IF sessions[requests[r].sid].running
                       THEN [@ EXCEPT !.pc = "responded",
                                      !.response = "already running"]
                       ELSE [@ EXCEPT !.pc = "checked"]]
    /\ UNCHANGED <<engine, h5file, outdir, sessions, tasks>>

\* run_analysis, line 73: update_session(session_id, {"running": True})
RunAnalysisSetRunning(r) ==
    /\ requests[r].pc = "checked"
    /\ sessions' = UpdateRunning(sessions, requests[r].sid)
    /\ requests' = [requests EXCEPT ![r].pc = "marked"]
    /\ UNCHANGED <<engine, h5file, outdir, tasks>>

\* run_analysis, lines 109-111: thread.start()
RunAnalysisStartThread(r) ==
    /\ requests[r].pc = "marked"
    /\ tasks' = [tasks EXCEPT ![r].pc = "start"]
    /\ requests' = [requests EXCEPT ![r].pc = "threaded"]
    /\ UNCHANGED <<engine, h5file, outdir, sessions>>

\* run_analysis, line 113: the response {"status": "started"}
RunAnalysisRespond(r) ==
    /\ requests[r].pc = "threaded"
    /\ requests' = [requests EXCEPT ![r].pc = "responded",
                                    ![r].response = "started"]
    /\ UNCHANGED <<engine, h5file, outdir, sessions, tasks>>

\* run_analysis_task, lines 77-85: the data file is checked
TaskCheckData(r) ==
    /\ tasks[r].pc = "start"
    /\ IF ~h5file.exists
       THEN /\ sessions' = UpdateSession(sessions, requests[r].sid,
                                         FALSE, FALSE, "data file not found")
            /\ tasks' = [tasks EXCEPT ![r].pc = "finished"]
       ELSE /\ tasks' = [tasks EXCEPT ![r].pc = "analyse"]
            /\ UNCHANGED sessions
    /\ UNCHANGED <<engine, h5file, outdir, requests>>

\* generate_all_visualizations up to save_results_fast: the run fails, or
\* it has a result to save
TaskAnalyse(r) ==
    /\ tasks[r].pc = "analyse"
    /\ \/ tasks' = [tasks EXCEPT ![r].pc = "returned", ![r].success = FALSE]
       \/ \E n \in 1..MaxChunks :
              tasks' = [tasks EXCEPT ![r].pc = "open_json", ![r].size = n]
    /\ UNCHANGED <<engine, h5file, outdir, requests, sessions>>

\* save_results_fast: open(tracks.json, "w") truncates the file
TaskOpenJson(r) ==
    /\ tasks[r].pc = "open_json"
    /\ outdir' = [outdir EXCEPT !.tracks_json = [present |-> TRUE, text |-> <<>>]]
    /\ tasks' = [tasks EXCEPT ![r].pc = "write_json"]
    /\ UNCHANGED <<engine, h5file, requests, sessions>>

\* save_results_fast: json.dump and the close of the file; the next piece
\* of the text is written at the offset of this file object
TaskWriteJson(r) ==
    /\ tasks[r].pc = "write_json"
    /\ LET text == RunText(r, tasks[r].size)
           at   == tasks[r].written
       IN  /\ outdir' = [outdir EXCEPT !.tracks_json =
                            [present |-> TRUE,
                             text |-> WriteAt(outdir.tracks_json.text, at,
                                              text[at + 1])]]
           /\ tasks' = [tasks EXCEPT
                           ![r].written = at + 1,
                           ![r].pc = IF at + 1 = Len(text) THEN "open_report"
                                     ELSE "write_json"]
    /\ UNCHANGED <<engine, h5file, requests, sessions>>

\* save_results_fast: open(report.txt, "w") truncates the file
TaskOpenReport(r) ==
    /\ tasks[r].pc = "open_report"
    /\ outdir' = [outdir EXCEPT !.report_txt = [present |-> TRUE, text |-> <<>>]]
    /\ tasks' = [tasks EXCEPT ![r].pc = "write_report"]
    /\ UNCHANGED <<engine, h5file, requests, sessions>>

\* save_results_fast: f.write(report) and the close of the file
TaskWriteReport(r) ==
    /\ tasks[r].pc = "write_report"
    /\ outdir' = [outdir EXCEPT !.report_txt =
                     [present |-> TRUE,
                      text |-> WriteAt(outdir.report_txt.text, 0, ReportText[1])]]
    /\ tasks' = [tasks EXCEPT ![r].pc = "visualize"]
    /\ UNCHANGED <<engine, h5file, requests, sessions>>

\* create_fast_visualizations: infographic.png is saved, or the error of
\* the chart is logged and swallowed
TaskVisualize(r) ==
    /\ tasks[r].pc = "visualize"
    /\ \E infographic_ok \in BOOLEAN :
        outdir' = IF infographic_ok
                  THEN [outdir EXCEPT !.infographic_png =
                           [present |-> TRUE, text |-> ReportText]]
                  ELSE outdir
    /\ tasks' = [tasks EXCEPT ![r].pc = "return"]
    /\ UNCHANGED <<engine, h5file, requests, sessions>>

\* fast_generate_analysis returns {"success": True, ...}
TaskReturn(r) ==
    /\ tasks[r].pc = "return"
    /\ tasks' = [tasks EXCEPT ![r].pc = "returned", ![r].success = TRUE]
    /\ UNCHANGED <<engine, h5file, outdir, requests, sessions>>

\* run_analysis_task, lines 89-100: the session is told the outcome
TaskUpdateSession(r) ==
    /\ tasks[r].pc = "returned"
    /\ sessions' = IF tasks[r].success
                   THEN UpdateSession(sessions, requests[r].sid, FALSE, TRUE, "None")
                   ELSE UpdateSession(sessions, requests[r].sid,
                                      FALSE, FALSE, "analysis failed")
    /\ tasks' = [tasks EXCEPT ![r].pc = "finished"]
    /\ UNCHANGED <<engine, h5file, outdir, requests>>

NextWeb ==
    \/ \E sid \in SessionIds : Index(sid)
    \/ \E sid \in SessionIds : CleanupSession(sid)
    \/ \E r \in RequestIds, sid \in SessionIds : RunAnalysisGetSession(r, sid)
    \/ \E r \in RequestIds : RunAnalysisCheckRunning(r)
    \/ \E r \in RequestIds : RunAnalysisSetRunning(r)
    \/ \E r \in RequestIds : RunAnalysisStartThread(r)
    \/ \E r \in RequestIds : RunAnalysisRespond(r)
    \/ \E r \in RequestIds : TaskCheckData(r)
    \/ \E r \in RequestIds : TaskAnalyse(r)
    \/ \E r \in RequestIds : TaskOpenJson(r)
    \/ \E r \in RequestIds : TaskWriteJson(r)
    \/ \E r \in RequestIds : TaskOpenReport(r)
    \/ \E r \in RequestIds : TaskWriteReport(r)
    \/ \E r \in RequestIds : TaskVisualize(r)
    \/ \E r \in RequestIds : TaskReturn(r)
    \/ \E r \in RequestIds : TaskUpdateSession(r)

SpecWeb == InitWeb /\ [][NextWeb]_vars

\* a run_analysis_task thread is active
TaskActive(r) == tasks[r].pc \notin {"idle", "finished"}

\* run r wrote its result
TaskSaved(r) == tasks[r].pc \in {"returned", "finished"} /\ tasks[r].success

\* C12 (as claimed): each write replaces the file from its start, and once
\* every run writing to the output location has finished, tracks.json and
\* report.txt together are the complete output of one single run.
C12_LastWriterWins ==
    ((\A r \in RequestIds : ~TaskActive(r)) /\ (\E r \in RequestIds : TaskSaved(r))) =>
        \E r \in RequestIds :
            /\ TaskSaved(r)
            /\ outdir.tracks_json = [present |-> TRUE, text |-> RunText(r, tasks[r].size)]
            /\ outdir.report_txt = [present |-> TRUE, text |-> ReportText]

\* the run_analysis_task threads of a session
TasksOf(sid) == {r \in RequestIds : tasks[r].pc # "idle" /\ requests[r].sid = sid}

\* C15 (as claimed): at most one run_analysis_task thread of a session is
\* active at a time, and a request answered "already running" has started
\* no thread.
C15_OneTaskPerSession ==
    /\ \A sid \in SessionIds :
           Cardinality({r \in TasksOf(sid) : TaskActive(r)}) <= 1
    /\ \A r \in RequestIds :
           requests[r].response = "already running" => tasks[r].pc = "idle"

\* C16 (as claimed): a session record never has running and done together,
\* never has done together with an error, and once a task of the session
\* has finished and none is active it has running = false and exactly one
\* of done and an error.
C16_StatusConsistent ==
    \A sid \in SessionIds :
        sessions[sid].state = "live" =>
            /\ ~(sessions[sid].running /\ sessions[sid].done)
            /\ ~(sessions[sid].done /\ sessions[sid].error # "None")
            /\ (/\ \E r \in TasksOf(sid) : tasks[r].pc = "finished"
                /\ \A r \in TasksOf(sid) : ~TaskActive(r)) =>
                   /\ ~sessions[sid].running
                   /\ sessions[sid].done # (sessions[sid].error # "None")

---------------------------------------------------------------------------
(* A run over an output location that may hold an earlier result           *)

\* the result an earlier run left: one track, which no run of these
\* recordings produces
EarlierTrack ==
    [id |-> 7, points |-> <<[time |-> 700, position |-> Position(0)]>>,
     vehicle_type |-> "heavy", avg_amp |-> 30,
     speed_kmh |-> [n |-> 50000, p |-> 0, d |-> 1000, err |-> 0]]

EarlierStats ==
    [total_vehicles |-> 1, avg_speed_kmh |-> 500, congestion_vehicles |-> 0,
     congestion_percent |-> 0, peak_hour |-> "00:00-01:00",
     traffic_intensity |-> 0, vehicle_types |-> [light |-> 0, heavy |-> 1],
     processing_time |-> 12]

EarlierDir ==
    [tracks_json |-> TracksJson(<<EarlierTrack>>, EarlierStats),
     report_txt |-> ReportTxt(EarlierStats),
     infographic_png |-> NoFile]

DirsBefore == {EmptyDir, EarlierDir}

RerunRecordings ==
    {NoRecording} \cup
    {Recording(sc, ts) :
        sc \in Scenes,
        ts \in {FlatTimestamps(NT, 620), SplitTimestamps(NT, 620, 2)}}

InitRerun ==
    /\ pc = "start"
    /\ h5file \in RerunRecordings
    /\ outdir \in DirsBefore
    /\ stats = <<>>
    /\ timestamps = NoTimestamps
    /\ data_2d = <<>>
    /\ binary = <<>>
    /\ hough = NoHough
    /\ raw_tracks = <<>>
    /\ candidate_speeds = <<>>
    /\ tracks = <<>>
    /\ stats_result = NoStats
    /\ result = NoResult
    /\ track_points = <<>>
    /\ amplitudes = <<>>
    /\ classified = NoClass
    /\ utc_offset = 0
    /\ loaded = NoLoad
    /\ sessions = NoSessions
    /\ requests = <<>>
    /\ tasks = <<>>

SpecRerun == InitRerun /\ [][Next]_vars

\* C13: a run on a recording path that does not exist ends at the loader,
\* in one step, returning {success: false, error: <message>}, with the
\* output location as it was; and whenever a run has failed, the output
\* location still is what it was before the run.
C13_MissingInput ==
    /\ [][(pc = "start" /\ ~h5file.exists) =>
              /\ pc' = "done"
              /\ result' = [returned |-> TRUE, success |-> FALSE,
                            error |-> "FileNotFoundError"]
              /\ outdir' = outdir]_vars
    /\ [](pc = "done" =>
              /\ result.returned
              /\ ~result.success => outdir \in DirsBefore)
    /\ [][outdir' = outdir \/
              (pc' = "done" => (result'.returned /\ result'.success))]_vars

\* C13 witness: the run on the missing recording has returned its failure
\* and the earlier result is still in place.
C13_Witness ==
    /\ pc = "done"
    /\ ~h5file.exists
    /\ result = [returned |-> TRUE, success |-> FALSE, error |-> "FileNotFoundError"]
    /\ outdir = EarlierDir

---------------------------------------------------------------------------
(* The mask builder on recordings of one intensity                         *)

MaxMaskRows == 4   \* time steps of a uniform recording
MaxMaskCols == 5   \* positions of a uniform recording

UniformValues == {-7, -1, 0, 2, 30}

UniformTensor(rows, cols, v) ==
    [t \in 1..rows |-> [x \in 1..cols |-> [f \in 1..NF |-> v]]]

\* recordings of one intensity, of every size, and the scenes with a band
MaskTensors ==
    {UniformTensor(rows, cols, v) :
        rows \in 1..MaxMaskRows, cols \in 1..MaxMaskCols, v \in UniformValues}
        \cup {SceneTensor(sc) : sc \in Scenes}

InitMask ==
    /\ pc = "loaded"
    /\ stats \in MaskTensors
    /\ h5file = NoRecording
    /\ timestamps = NoTimestamps
    /\ data_2d = <<>>
    /\ binary = <<>>
    /\ hough = NoHough
    /\ raw_tracks = <<>>
    /\ candidate_speeds = <<>>
    /\ tracks = <<>>
    /\ stats_result = NoStats
    /\ outdir = EmptyDir
    /\ result = NoResult
    /\ track_points = <<>>
    /\ amplitudes = <<>>
    /\ classified = NoClass
    /\ utc_offset = 0
    /\ loaded = NoLoad
    /\ sessions = NoSessions
    /\ requests = <<>>
    /\ tasks = <<>>

NextMask == Preprocess

SpecMask == InitMask /\ [][NextMask]_vars

\* every cell of the field has the value of the first
Uniform(m) == \A c \in Cells(m) : m[c[1]][c[2]] = m[1][1]

AllFalse(b) == \A c \in Cells(b) : ~b[c[1]][c[2]]

\* C14: when every cell of the filtered field has the same value v, the
\* 70th and the 85th percentile are v, the threshold is v, and the mask is
\* all-false both before and after the opening.  (Percentile is in
\* hundredths of the field's unit and Threshold in five-hundredths.)
C14_UniformField ==
    (pc = "preprocessed" /\ Uniform(data_2d)) =>
        LET v == data_2d[1][1]
        IN  /\ Percentile(data_2d, 70) = 100 * v
            /\ Percentile(data_2d, 85) = 100 * v
            /\ Threshold(data_2d) = 500 * v
            /\ AllFalse(Binarize(data_2d))
            /\ AllFalse(binary)

\* C14 witness: a uniform field of a negative value, several rows and
\* columns, has passed the mask builder and its mask is all-false.
C14_Witness ==
    /\ pc = "preprocessed"
    /\ Uniform(data_2d)
    /\ Rows(data_2d) >= 2
    /\ Cols(data_2d) >= 3
    /\ data_2d[1][1] < 0
    /\ AllFalse(binary)

====
